---- MODULE Spec2Model ----
(***************************************************************************)
(* Request execution engine of the DevPal API client: the template         *)
(* resolver, the scope store behind the pm object, the script sandbox and  *)
(* the send pipeline of the application shell.                             *)
(*                                                                         *)
(* Texts are sequences of tokens: a literal atom or a placeholder {{key}}. *)
(* JavaScript values are records [type, v]; v is the text of the value.    *)
(***************************************************************************)
EXTENDS Integers, Sequences, FiniteSets, TLC

VARIABLES
    project,            \* App state: the Project document
    runtimeVariables,   \* App state: the RuntimeVariables overlay
    consoleLogs,        \* App state: the console log entries shown
    response,           \* App state: the response shown
    send,               \* per send: the position and locals of handleSendRequest
    used                \* how many sends and script steps the run has made

vars == <<project, runtimeVariables, consoleLogs, response, send, used>>

(***************************************************************************)
(* Texts and JavaScript values                                             *)
(***************************************************************************)
Lit(s) == [t |-> "lit", v |-> s]
Var(k) == [t |-> "var", v |-> k]

Str(text) == [type |-> "string", v |-> text]
Num(text) == [type |-> "number", v |-> text]
undefined == [type |-> "undefined", v |-> <<>>]
\* the exception of a call stack exhausted by unbounded recursion
RangeError == [type |-> "RangeError", v |-> <<>>]

\* String(value)
String(value) == value.v

\* Map.get: undefined for an absent key
MapGet(map, key) == IF key \in DOMAIN map THEN map[key] ELSE undefined

\* Map.set
MapSet(map, key, value) ==
    [k \in DOMAIN map \cup {key} |-> IF k = key THEN value ELSE map[k]]

\* Map.delete
MapDelete(map, key) == [k \in DOMAIN map \ {key} |-> map[k]]

EmptyMap == [k \in {} |-> undefined]

(***************************************************************************)
(* Template Resolver                                                       *)
(***************************************************************************)
MAX_DEPTH == 10

\* unresolvedRegex.test(text)
unresolvedRegex_test(text) == \E i \in 1..Len(text) : text[i].t = "var"

\* a pass that replaces a placeholder without a value by the empty text
RECURSIVE replacePass_blanksUnknown(_, _)
replacePass_blanksUnknown(text, variables) ==
    IF text = <<>> THEN [text |-> <<>>, replaced |-> FALSE, thrown |-> FALSE]
    ELSE LET match == Head(text)
             rest == replacePass_blanksUnknown(Tail(text), variables)
         IN IF match.t # "var"
            THEN [rest EXCEPT !.text = <<match>> \o rest.text]
            ELSE LET value == MapGet(variables, match.v)
                 IN IF value # undefined
                    THEN [text |-> String(value) \o rest.text,
                          replaced |-> rest.replaced \/ String(value) # <<match>>,
                          thrown |-> rest.thrown]
                    ELSE [rest EXCEPT !.replaced = TRUE]

\* One text.replace(variableRegex, callback) pass over the tokens.  The
\* lookup is a function from keys to values; a key outside it is undefined.
RECURSIVE replacePass(_, _)
replacePass(text, variables) ==
    IF text = <<>> THEN [text |-> <<>>, replaced |-> FALSE, thrown |-> FALSE]
    ELSE LET match == Head(text)
             rest == replacePass(Tail(text), variables)
         IN IF match.t # "var"
            THEN [rest EXCEPT !.text = <<match>> \o rest.text]
            ELSE LET value == MapGet(variables, match.v)
                 IN IF value = RangeError
                    THEN [text |-> <<>>, replaced |-> FALSE, thrown |-> TRUE]
                    ELSE IF value # undefined
                    THEN [text |-> String(value) \o rest.text,
                          replaced |-> rest.replaced \/ String(value) # <<match>>,
                          thrown |-> rest.thrown]
                    ELSE [rest EXCEPT !.text = <<match>> \o rest.text]

\* a loop that lets one more pass run before it gives up
RECURSIVE resolveLoop_oneMore(_, _, _)
resolveLoop_oneMore(resolvedText, depth, variables) ==
    IF depth < MAX_DEPTH + 1 /\ unresolvedRegex_test(resolvedText)
    THEN LET pass == replacePass(resolvedText, variables)
         IN IF pass.thrown
            THEN [text |-> <<>>, depth |-> depth, passes |-> depth + 1, thrown |-> TRUE]
            ELSE IF ~pass.replaced
            THEN [text |-> pass.text, depth |-> depth, passes |-> depth + 1,
                  thrown |-> FALSE]
            ELSE resolveLoop_oneMore(pass.text, depth + 1, variables)
    ELSE [text |-> resolvedText, depth |-> depth, passes |-> depth, thrown |-> FALSE]

\* The while loop of recursiveVariableResolver; passes counts the replace
\* calls made (every pass before the last one raised depth)
RECURSIVE resolveLoop(_, _, _)
resolveLoop(resolvedText, depth, variables) ==
    IF depth < MAX_DEPTH /\ unresolvedRegex_test(resolvedText)
    THEN LET pass == replacePass(resolvedText, variables)
         IN IF pass.thrown
            THEN [text |-> <<>>, depth |-> depth, passes |-> depth + 1, thrown |-> TRUE]
            ELSE IF ~pass.replaced
            THEN [text |-> pass.text, depth |-> depth, passes |-> depth + 1,
                  thrown |-> FALSE]
            ELSE resolveLoop(pass.text, depth + 1, variables)
    ELSE [text |-> resolvedText, depth |-> depth, passes |-> depth, thrown |-> FALSE]

recursiveVariableResolver(text, variables) ==
    IF text.type # "string" \/ text.v = <<>> THEN text
    ELSE LET run == resolveLoop(text.v, 0, variables)
         IN IF run.thrown THEN RangeError ELSE Str(run.text)

(***************************************************************************)
(* Ancestor-chain lookup                                                   *)
(***************************************************************************)
\* findPath's "no path" result; a real path is never empty
null == <<>>

RECURSIVE search(_, _)
search(id, items) ==
    IF items = <<>> THEN null
    ELSE LET item == Head(items)
             subPath == IF "items" \in DOMAIN item
                        THEN search(id, item.items) ELSE null
         IN IF item.id = id THEN <<item>>
            ELSE IF subPath # null THEN <<item>> \o subPath
            ELSE search(id, Tail(items))

findPath(targetId, p) == search(targetId, p.collections)

(***************************************************************************)
(* Scope Store: the pm context of one item                                 *)
(***************************************************************************)
\* variables.filter(v => v.enabled).forEach(v => map.set(v.key, v.value))
RECURSIVE setEnabled(_, _)
setEnabled(map, variables) ==
    IF variables = <<>> THEN map
    ELSE LET v == Head(variables)
         IN setEnabled(IF v.enabled THEN MapSet(map, v.key, Str(v.value)) ELSE map,
                       Tail(variables))

\* the loop over path[1..] that fills the environment map
RECURSIVE folderVariables(_, _, _)
folderVariables(map, path, i) ==
    IF i > Len(path) THEN map
    ELSE folderVariables(IF "variables" \in DOMAIN path[i]
                         THEN setEnabled(map, path[i].variables) ELSE map,
                         path, i + 1)

\* an overlay in which a folder variable wins over the runtime one
overlayRuntime_folderWins(map, initialRuntimeVariables) ==
    [k \in DOMAIN map \cup DOMAIN initialRuntimeVariables |->
        IF k \in DOMAIN map THEN map[k] ELSE initialRuntimeVariables[k]]

\* initialRuntimeVariables.forEach((v, k) => environmentMap.set(k, v))
overlayRuntime(map, initialRuntimeVariables) ==
    [k \in DOMAIN map \cup DOMAIN initialRuntimeVariables |->
        IF k \in DOMAIN initialRuntimeVariables
        THEN initialRuntimeVariables[k] ELSE map[k]]

\* a Headers object: lower-cased name -> value
EmptyHeaders == [n \in {} |-> <<>>]

\* the default pm.request of a context: headers.add does nothing
NoRequest == [seeded |-> FALSE, _headers |-> EmptyHeaders]

NoResponse == [code |-> -1]

buildPmContext(p, itemId, initialRuntimeVariables) ==
    LET path == findPath(itemId, p)
        globalsMap == setEnabled(EmptyMap, p.globalVariables)
        collectionMap == IF path # null /\ "variables" \in DOMAIN path[1]
                         THEN setEnabled(EmptyMap, path[1].variables)
                         ELSE EmptyMap
        folderMap == IF path # null THEN folderVariables(EmptyMap, path, 2)
                     ELSE EmptyMap
    IN [globalsMap |-> globalsMap,
        collectionMap |-> collectionMap,
        environmentMap |-> overlayRuntime(folderMap, initialRuntimeVariables),
        request |-> NoRequest,
        response |-> NoResponse]

\* The keys a placeholder can name
Keys == {"a", "b"}

\* a getter that asks the collection map before the environment map
rawValue_collectionFirst(ctx, key) ==
    IF key \in DOMAIN ctx.collectionMap THEN ctx.collectionMap[key]
    ELSE IF key \in DOMAIN ctx.environmentMap THEN ctx.environmentMap[key]
    ELSE IF key \in DOMAIN ctx.globalsMap THEN ctx.globalsMap[key]
    ELSE undefined

\* Precedence: environment > collection > globals
rawValue(ctx, key) ==
    IF key \in DOMAIN ctx.environmentMap THEN ctx.environmentMap[key]
    ELSE IF key \in DOMAIN ctx.collectionMap THEN ctx.collectionMap[key]
    ELSE IF key \in DOMAIN ctx.globalsMap THEN ctx.globalsMap[key]
    ELSE undefined

\* pm.variables.get.  The getter resolves the raw value with itself as the
\* lookup, so a key reached again while its own value is being resolved
\* recurses without end and the call stack overflows: active is the set of
\* keys whose get is on the stack.
RECURSIVE variablesAccessor_get(_, _, _)
variablesAccessor_get(ctx, key, active) ==
    IF key \in active THEN RangeError
    ELSE LET unifiedResolver ==
                 [k \in Keys |-> variablesAccessor_get(ctx, k, active \cup {key})]
         IN IF rawValue(ctx, key).type = "string"
            THEN recursiveVariableResolver(rawValue(ctx, key), unifiedResolver)
            ELSE rawValue(ctx, key)

\* pm.variables.get as a script calls it
variablesGet(ctx, key) == variablesAccessor_get(ctx, key, {})

variablesAccessor_set(ctx, key, value) ==
    [ctx EXCEPT !.environmentMap = MapSet(@, key, value)]

variablesAccessor_has(ctx, key) ==
    \/ key \in DOMAIN ctx.environmentMap
    \/ key \in DOMAIN ctx.collectionMap
    \/ key \in DOMAIN ctx.globalsMap

variablesAccessor_unset(ctx, key) ==
    IF key \in DOMAIN ctx.environmentMap
    THEN [ctx EXCEPT !.environmentMap = MapDelete(@, key)]
    ELSE ctx

variablesAccessor_clear(ctx) == [ctx EXCEPT !.environmentMap = EmptyMap]

\* pm.variables.toObject(): every key of any scope through the resolving
\* getter; the first getter that throws ends the call
variablesAccessor_toObject(ctx) ==
    LET allKeys == DOMAIN ctx.globalsMap \cup DOMAIN ctx.collectionMap
                   \cup DOMAIN ctx.environmentMap
        obj == [key \in allKeys |-> variablesGet(ctx, key)]
    IN IF \E key \in allKeys : obj[key] = RangeError
       THEN [thrown |-> TRUE, obj |-> EmptyMap]
       ELSE [thrown |-> FALSE, obj |-> obj]

\* createScopeAccessor(scopeMap): scope names one of the three backing maps
ScopeNames == {"globalsMap", "collectionMap", "environmentMap"}

scopeAccessor_get(ctx, scope, key) == MapGet(ctx[scope], key)
scopeAccessor_set(ctx, scope, key, value) ==
    [ctx EXCEPT ![scope] = MapSet(@, key, value)]
scopeAccessor_has(ctx, scope, key) == key \in DOMAIN ctx[scope]
scopeAccessor_unset(ctx, scope, key) == [ctx EXCEPT ![scope] = MapDelete(@, key)]
scopeAccessor_clear(ctx, scope) == [ctx EXCEPT ![scope] = EmptyMap]
scopeAccessor_toObject(ctx, scope) == ctx[scope]

\* a query that leaves the runtime overlay out
getScopedVariables_noRuntime(p, itemId, runtime) ==
    variablesAccessor_toObject(buildPmContext(p, itemId, EmptyMap))

\* getScopedVariables: the resolved unified variables of an item; thrown
\* when the getter overflows the stack
getScopedVariables(p, itemId, runtime) ==
    variablesAccessor_toObject(buildPmContext(p, itemId, runtime))

(***************************************************************************)
(* Headers objects                                                         *)
(***************************************************************************)
\* Header names are case-insensitive: a Headers object keeps them lower-cased
LowerAtom(s) ==
    CASE s = "X-Tok" -> "x-tok"
      [] s = "X-New" -> "x-new"
      [] s = "Content-Type" -> "content-type"
      [] OTHER -> s

lower(name) ==
    [i \in DOMAIN name |->
        IF name[i].t = "lit" THEN Lit(LowerAtom(name[i].v)) ELSE name[i]]

\* A header name is a non-empty token: an empty name or one holding braces
\* makes the Headers method throw a TypeError
validName(name) == name # <<>> /\ \A i \in DOMAIN name : name[i].t = "lit"

Headers_has(h, name) == lower(name) \in DOMAIN h
Headers_set(h, name, value) == MapSet(h, lower(name), value)
Headers_delete(h, name) == MapDelete(h, lower(name))
\* append joins the values of one name with ", "
Headers_append(h, name, value) ==
    IF Headers_has(h, name)
    THEN [h EXCEPT ![lower(name)] = @ \o <<Lit(", ")>> \o value]
    ELSE MapSet(h, lower(name), value)

\* {...acc, [h.key]: h.value}: an object keeps its keys in insertion order
objectAssign(acc, key, value) ==
    IF \E i \in DOMAIN acc : acc[i].key = key
    THEN [i \in DOMAIN acc |->
            IF acc[i].key = key THEN [key |-> key, value |-> value] ELSE acc[i]]
    ELSE Append(acc, [key |-> key, value |-> value])

\* request.headers.filter(h => h.enabled).reduce(..., {})
RECURSIVE enabledHeadersObject(_, _)
enabledHeadersObject(acc, headers) ==
    IF headers = <<>> THEN acc
    ELSE LET h == Head(headers)
         IN enabledHeadersObject(
                IF h.enabled THEN objectAssign(acc, h.key, h.value) ELSE acc,
                Tail(headers))

\* new Headers(object): every entry appended
RECURSIVE newHeaders(_, _)
newHeaders(h, entries) ==
    IF entries = <<>> THEN h
    ELSE newHeaders(Headers_append(h, Head(entries).key, Head(entries).value),
                    Tail(entries))

\* handleSendRequest's initialHeaders: the enabled declared headers, raw
initialHeaders(request) ==
    LET obj == enabledHeadersObject(<<>>, request.headers)
    IN IF \E i \in DOMAIN obj : ~validName(obj[i].key)
       THEN [thrown |-> TRUE, headers |-> EmptyHeaders]
       ELSE [thrown |-> FALSE, headers |-> newHeaders(EmptyHeaders, obj)]

\* pm.request.headers.add({key, value}) of a context seeded with headers
requestHeaders_add(ctx, key, value) ==
    IF ctx.request.seeded
    THEN [ctx EXCEPT !.request._headers = Headers_append(@, key, value)]
    ELSE ctx

(***************************************************************************)
(* resolveRequest                                                          *)
(***************************************************************************)
\* request.headers.filter(h => h.enabled).forEach(h => resolvedHeaders.set(...))
RECURSIVE resolveDeclaredHeaders(_, _, _)
resolveDeclaredHeaders(resolvedHeaders, headers, variablesMap) ==
    IF headers = <<>> THEN [thrown |-> FALSE, headers |-> resolvedHeaders]
    ELSE LET header == Head(headers)
             key == recursiveVariableResolver(Str(header.key), variablesMap).v
             value == recursiveVariableResolver(Str(header.value), variablesMap).v
         IN IF ~header.enabled
            THEN resolveDeclaredHeaders(resolvedHeaders, Tail(headers), variablesMap)
            ELSE IF ~validName(key)
            THEN [thrown |-> TRUE, headers |-> resolvedHeaders]
            ELSE resolveDeclaredHeaders(Headers_set(resolvedHeaders, key, value),
                                        Tail(headers), variablesMap)

\* pmContext.request.headers._headers.forEach((value, key) => resolvedHeaders.set(key, value))
mergeScriptHeaders(resolvedHeaders, pmContext) ==
    IF pmContext.request.seeded
    THEN [n \in DOMAIN resolvedHeaders \cup DOMAIN pmContext.request._headers |->
            IF n \in DOMAIN pmContext.request._headers
            THEN pmContext.request._headers[n] ELSE resolvedHeaders[n]]
    ELSE resolvedHeaders

\* types.ts: the Body union
Body(mode, raw, formData, urlEncoded, graphql) ==
    [mode |-> mode, raw |-> raw, formData |-> formData,
     urlEncoded |-> urlEncoded, graphql |-> graphql]
GraphQL(query, variables) == [query |-> query, variables |-> variables]

\* BodyInit | undefined, as resolveRequest leaves it
undefinedBody == [kind |-> "undefined", text |-> <<>>, pairs |-> <<>>]
stringBody(text) == [kind |-> "string", text |-> text, pairs |-> <<>>]
URLSearchParams(pairs) == [kind |-> "URLSearchParams", text |-> <<>>, pairs |-> pairs]
FormData(pairs) == [kind |-> "FormData", text |-> <<>>, pairs |-> pairs]

ContentType == <<Lit("Content-Type")>>

\* pairs.filter(p => p.enabled).forEach(p => data.append(resolve(p.key), resolve(p.value)))
RECURSIVE appendEnabled(_, _, _)
appendEnabled(data, pairs, variablesMap) ==
    IF pairs = <<>> THEN data
    ELSE LET p == Head(pairs)
             entry == [key |-> recursiveVariableResolver(Str(p.key), variablesMap).v,
                       value |-> recursiveVariableResolver(Str(p.value), variablesMap).v]
         IN appendEnabled(IF p.enabled THEN Append(data, entry) ELSE data,
                          Tail(pairs), variablesMap)

\* String.prototype.trim over texts whose white space is the atom " "
whitespace(token) == token = Lit(" ")
RECURSIVE trimStart(_)
trimStart(text) ==
    IF text # <<>> /\ whitespace(Head(text)) THEN trimStart(Tail(text)) ELSE text
RECURSIVE trimEnd(_)
trimEnd(text) ==
    IF text # <<>> /\ whitespace(text[Len(text)])
    THEN trimEnd(SubSeq(text, 1, Len(text) - 1)) ELSE text
trim(text) == trimEnd(trimStart(text))

\* JSON.parse over the atoms "{", "}", "{}", "1" and white space: the texts
\* that are a JSON value, and the value in its JSON.stringify form
JSON_parse(text) ==
    LET significant == SelectSeq(text, LAMBDA token : ~whitespace(token))
    IN IF significant \in {<<Lit("{}")>>, <<Lit("{"), Lit("}")>>}
       THEN [thrown |-> FALSE, value |-> <<Lit("{}")>>]
       ELSE IF significant = <<Lit("1")>>
       THEN [thrown |-> FALSE, value |-> <<Lit("1")>>]
       ELSE [thrown |-> TRUE, value |-> <<>>]

\* JSON.stringify({ query, variables })
JSON_stringify(query, variables) ==
    <<Lit("{query:")>> \o query \o <<Lit(",variables:")>> \o variables \o <<Lit("}")>>

NoThrow == <<"none">>

bodyResult(thrown, resolvedHeaders, resolvedBody) ==
    [thrown |-> thrown, resolvedHeaders |-> resolvedHeaders, resolvedBody |-> resolvedBody]

\* a form-urlencoded case that sets Content-Type whatever the headers hold
urlEncodedCase_alwaysSets(urlEncoded, resolvedHeaders, variablesMap) ==
    IF urlEncoded # <<>>
    THEN bodyResult(NoThrow,
                    Headers_set(resolvedHeaders, ContentType,
                                <<Lit("application/x-www-form-urlencoded")>>),
                    URLSearchParams(appendEnabled(<<>>, urlEncoded, variablesMap)))
    ELSE bodyResult(NoThrow, resolvedHeaders, undefinedBody)

\* case 'x-www-form-urlencoded'
urlEncodedCase(urlEncoded, resolvedHeaders, variablesMap) ==
    IF urlEncoded # <<>>
    THEN bodyResult(NoThrow,
                    IF ~Headers_has(resolvedHeaders, ContentType)
                    THEN Headers_set(resolvedHeaders, ContentType,
                                     <<Lit("application/x-www-form-urlencoded")>>)
                    ELSE resolvedHeaders,
                    URLSearchParams(appendEnabled(<<>>, urlEncoded, variablesMap)))
    ELSE bodyResult(NoThrow, resolvedHeaders, undefinedBody)

\* a form-data case that leaves the headers alone
formDataCase_keepsContentType(formData, resolvedHeaders, variablesMap) ==
    IF formData # <<>>
    THEN bodyResult(NoThrow, resolvedHeaders,
                    FormData(appendEnabled(<<>>, formData, variablesMap)))
    ELSE bodyResult(NoThrow, resolvedHeaders, undefinedBody)

\* case 'form-data'
formDataCase(formData, resolvedHeaders, variablesMap) ==
    IF formData # <<>>
    THEN bodyResult(NoThrow, Headers_delete(resolvedHeaders, ContentType),
                    FormData(appendEnabled(<<>>, formData, variablesMap)))
    ELSE bodyResult(NoThrow, resolvedHeaders, undefinedBody)

\* a graphql case that sends empty variables when the field does not parse
graphqlCase_ignoresInvalid(graphql, resolvedHeaders, variablesMap) ==
    IF graphql.query # <<>>
    THEN bodyResult(NoThrow,
                    IF ~Headers_has(resolvedHeaders, ContentType)
                    THEN Headers_set(resolvedHeaders, ContentType,
                                     <<Lit("application/json")>>)
                    ELSE resolvedHeaders,
                    stringBody(JSON_stringify(
                        recursiveVariableResolver(Str(graphql.query), variablesMap).v,
                        <<Lit("{}")>>)))
    ELSE bodyResult(NoThrow, resolvedHeaders, undefinedBody)

\* case 'graphql'
graphqlCase(graphql, resolvedHeaders, variablesMap) ==
    IF graphql.query # <<>>
    THEN LET query == recursiveVariableResolver(Str(graphql.query), variablesMap).v
             resolvedVarsString ==
                 recursiveVariableResolver(Str(graphql.variables), variablesMap).v
             parsed == IF graphql.variables # <<>> /\ trim(resolvedVarsString) # <<>>
                       THEN JSON_parse(resolvedVarsString)
                       ELSE [thrown |-> FALSE, value |-> <<Lit("{}")>>]
         IN IF parsed.thrown
            THEN bodyResult(<<"GraphQL variables field contains invalid JSON">>,
                            resolvedHeaders, undefinedBody)
            ELSE bodyResult(NoThrow,
                            IF ~Headers_has(resolvedHeaders, ContentType)
                            THEN Headers_set(resolvedHeaders, ContentType,
                                             <<Lit("application/json")>>)
                            ELSE resolvedHeaders,
                            stringBody(JSON_stringify(query, parsed.value)))
    ELSE bodyResult(NoThrow, resolvedHeaders, undefinedBody)

\* switch(mode)
resolveBody(body, resolvedHeaders, variablesMap) ==
    CASE body.mode = "raw" ->
            bodyResult(NoThrow, resolvedHeaders,
                       IF body.raw # <<>>
                       THEN stringBody(recursiveVariableResolver(Str(body.raw),
                                                                 variablesMap).v)
                       ELSE undefinedBody)
      [] body.mode = "x-www-form-urlencoded" ->
            urlEncodedCase(body.urlEncoded, resolvedHeaders, variablesMap)
      [] body.mode = "form-data" ->
            formDataCase(body.formData, resolvedHeaders, variablesMap)
      [] body.mode = "graphql" ->
            graphqlCase(body.graphql, resolvedHeaders, variablesMap)
      [] OTHER -> bodyResult(NoThrow, resolvedHeaders, undefinedBody)

resolveRequest(request, variablesMap, pmContext) ==
    LET resolvedUrl == recursiveVariableResolver(Str(request.url), variablesMap).v
        declared == resolveDeclaredHeaders(EmptyHeaders, request.headers, variablesMap)
        resolved == resolveBody(request.body,
                                mergeScriptHeaders(declared.headers, pmContext),
                                variablesMap)
    IN IF declared.thrown
       THEN [thrown |-> TRUE, message |-> <<"Invalid name">>, resolvedUrl |-> <<>>,
             resolvedHeaders |-> EmptyHeaders, resolvedBody |-> undefinedBody]
       ELSE IF resolved.thrown # NoThrow
       THEN [thrown |-> TRUE, message |-> resolved.thrown, resolvedUrl |-> <<>>,
             resolvedHeaders |-> EmptyHeaders, resolvedBody |-> undefinedBody]
       ELSE [thrown |-> FALSE, message |-> NoThrow,
             resolvedUrl |-> resolvedUrl,
             resolvedHeaders |-> resolved.resolvedHeaders,
             resolvedBody |-> resolved.resolvedBody]

(***************************************************************************)
(* The documents, requests and script calls the runs draw from             *)
(***************************************************************************)
NoBody == Body("none", <<>>, <<>>, <<>>, GraphQL(<<>>, <<>>))
Variable(key, value, enabled) == [key |-> key, value |-> value, enabled |-> enabled]
Script(id, type) == [id |-> id, type |-> type]
Header(key, value, enabled) == [key |-> key, value |-> value, enabled |-> enabled]

\* Get-style request directly under the collection
req1 ==
    [id |-> "req1", name |-> "Get User", type |-> "request", method |-> "GET",
     url |-> <<Var("a"), Lit("/users/"), Var("b")>>,
     headers |-> <<Header(<<Lit("X-Tok")>>, <<Lit("Bearer "), Var("a")>>, TRUE),
                   Header(<<Lit("X-Off")>>, <<Var("a")>>, FALSE)>>,
     scripts |-> <<Script("r1pre", "pre-request"), Script("r1post", "post-request")>>,
     body |-> NoBody]

\* request two folders deep
req2 ==
    [id |-> "req2", name |-> "Create Post", type |-> "request", method |-> "POST",
     url |-> <<Var("a"), Lit("/posts")>>,
     headers |-> <<Header(<<Lit("Content-Type")>>, <<Lit("json")>>, TRUE),
                   Header(<<Lit("X-Tok")>>, <<Var("b")>>, TRUE)>>,
     scripts |-> <<Script("r2post", "post-request"), Script("r2pre", "pre-request")>>,
     body |-> NoBody]

\* request of a collection without scripts
req3 ==
    [id |-> "req3", name |-> "Ping", type |-> "request", method |-> "GET",
     url |-> <<Var("b")>>,
     headers |-> <<Header(<<Lit("X-Tok")>>, <<Var("a"), Lit("-"), Var("b")>>, TRUE)>>,
     scripts |-> <<>>,
     body |-> NoBody]

folder2(variables) ==
    [id |-> "f2", name |-> "Inner", type |-> "folder", items |-> <<req2>>,
     variables |-> variables, scripts |-> <<>>]

folder1(variables, inner) ==
    [id |-> "f1", name |-> "Posts", type |-> "folder", items |-> <<folder2(inner)>>,
     variables |-> variables,
     scripts |-> <<Script("f1pre1", "pre-request"), Script("f1post", "post-request"),
                   Script("f1pre2", "pre-request")>>]

collection1(variables, f1vars, f2vars) ==
    [id |-> "coll1", name |-> "My First Collection",
     items |-> <<req1, folder1(f1vars, f2vars)>>,
     variables |-> variables,
     scripts |-> <<Script("c1pre", "pre-request"), Script("c1post", "post-request")>>]

folder3(variables) ==
    [id |-> "f3", name |-> "Quiet", type |-> "folder", items |-> <<req3>>,
     variables |-> variables, scripts |-> <<>>]

collection2(variables, f3vars) ==
    [id |-> "coll2", name |-> "Second", items |-> <<folder3(f3vars)>>,
     variables |-> variables, scripts |-> <<>>]

\* the variable lists the documents are built from
PlainGlobals == <<Variable("a", <<Lit("g")>>, TRUE), Variable("b", <<Lit("gb")>>, TRUE)>>
TemplateGlobals == <<Variable("a", <<Var("b")>>, TRUE), Variable("b", <<Lit("gb")>>, FALSE)>>
CycleGlobals == <<Variable("a", <<Var("b")>>, TRUE), Variable("b", <<Var("a")>>, TRUE)>>
CollVars == <<Variable("a", <<Lit("c")>>, TRUE)>>
CollVarsB == <<Variable("b", <<Lit("x"), Var("a")>>, TRUE)>>
F1Vars == <<Variable("a", <<Lit("e1")>>, TRUE), Variable("b", <<Lit("e1b")>>, TRUE)>>
F2Vars == <<Variable("a", <<Lit("off")>>, FALSE), Variable("b", <<Lit("e2old")>>, TRUE),
            Variable("b", <<Lit("e2b")>>, TRUE)>>
F2VarsOff == <<Variable("a", <<Lit("e2")>>, FALSE)>>

MakeProject(globals, cvars, f1vars, f2vars, c2vars, f3vars) ==
    [collections |-> <<collection1(cvars, f1vars, f2vars), collection2(c2vars, f3vars)>>,
     globalVariables |-> globals]

(***************************************************************************)
(* Script Sandbox: the calls a script body makes on pm                     *)
(***************************************************************************)
accessorScope(accessor) ==
    CASE accessor = "globals" -> "globalsMap"
      [] accessor = "collectionVariables" -> "collectionMap"
      [] accessor = "environment" -> "environmentMap"

\* one call of a script on the pm object
applyCall(ctx, call) ==
    CASE call.accessor = "variables" /\ call.op = "set" ->
            variablesAccessor_set(ctx, call.key, call.value)
      [] call.accessor = "variables" /\ call.op = "unset" ->
            variablesAccessor_unset(ctx, call.key)
      [] call.accessor = "variables" /\ call.op = "clear" ->
            variablesAccessor_clear(ctx)
      [] call.accessor = "request.headers" ->
            requestHeaders_add(ctx, call.key, call.value)
      [] call.op = "set" ->
            scopeAccessor_set(ctx, accessorScope(call.accessor), call.key, call.value)
      [] call.op = "unset" ->
            scopeAccessor_unset(ctx, accessorScope(call.accessor), call.key)
      [] call.op = "clear" ->
            scopeAccessor_clear(ctx, accessorScope(call.accessor))

Call(accessor, op, key, value) ==
    [accessor |-> accessor, op |-> op, key |-> key, value |-> value]

NoCall == Call("none", "none", "", undefined)

\* the script bodies of the send pipeline runs: which calls a script may make
PipelineCalls ==
    {Call("environment", "set", "a", Str(<<Lit("s")>>)),
     Call("variables", "set", "b", Str(<<Lit("x"), Var("a")>>)),
     Call("request.headers", "add", <<Lit("X-Tok")>>, <<Lit("tok")>>),
     Call("request.headers", "add", <<Lit("X-New")>>, <<Lit("new")>>)}

\* the values the scope runs set: a literal or a template for a, a number or
\* a template (closing the cycle a -> b -> a) for b
SetValues(key) ==
    IF key = "a" THEN {Str(<<Lit("s")>>), Str(<<Var("b")>>)}
    ELSE {Num(<<Lit("7")>>), Str(<<Var("a")>>)}

Accessors == {"variables", "environment", "collectionVariables", "globals"}

ScopeCalls ==
    {c \in {Call(acc, "set", k, v) : acc \in Accessors, k \in Keys,
                                     v \in SetValues("a") \cup SetValues("b")} :
        c.value \in SetValues(c.key)}
    \cup {Call(acc, "unset", k, undefined) : acc \in Accessors, k \in Keys}
    \cup {Call(acc, "clear", "", undefined) : acc \in Accessors}

(***************************************************************************)
(* Execution Pipeline: handleSendRequest and the services it awaits        *)
(***************************************************************************)
SendIds == {1}

NoContext ==
    [globalsMap |-> EmptyMap, collectionMap |-> EmptyMap, environmentMap |-> EmptyMap,
     request |-> NoRequest, response |-> NoResponse]

\* an error without a line: line is undefined
NoLine == 0

NoError == [isScriptError |-> FALSE, scriptType |-> "none", message |-> <<"none">>,
            line |-> NoLine]

\* new ScriptExecutionError(`Script error in "${ownerName}": ...`, script.type, errorLine)
ScriptExecutionError(ownerName, scriptType, line) ==
    [isScriptError |-> TRUE, scriptType |-> scriptType,
     message |-> <<"Script error in", ownerName>>, line |-> line]

\* The catch block of executeScript: stackLine is the first line:column
\* position of e.stack, 0 when the stack has none; two lines are taken off
\* and the result is kept when it is positive
errorLine(stackLine) ==
    IF stackLine > 0 /\ stackLine - 2 > 0 THEN stackLine - 2 ELSE NoLine

\* The first position an engine puts in the stack of the SyntaxError that
\* new Function throws: none, or a line of the calling code
StackLines == {0, 2, 8}

\* any other thrown error
Error(message) ==
    [isScriptError |-> FALSE, scriptType |-> "none", message |-> message, line |-> NoLine]

LogEntry(type, message, scriptType) ==
    [type |-> type, message |-> message, scriptType |-> scriptType]

NullResponse == [status |-> -1, body |-> <<"null">>]

IdleSend ==
    [pc |-> "idle", request |-> [id |-> "none"], project |-> [collections |-> <<>>],
     runtimeVariables |-> EmptyMap, consoleLogs |-> <<>>, pmContext |-> NoContext,
     scriptsToRun |-> <<>>, idx |-> 1, running |-> "", suspended |-> {},
     variablesMap |-> EmptyMap, resolved |-> [thrown |-> TRUE],
     fetches |-> 0, begun |-> <<>>, ended |-> {}, threw |-> {}, error |-> NoError, last |-> NoCall,
     before |-> NoContext, added |-> <<>>, sent |-> <<>>, kind |-> "send"]

\* path.forEach(item => item.scripts.filter(s => s.type === phase).forEach(push))
RECURSIVE scriptsOfPhase(_, _, _)
scriptsOfPhase(scripts, phase, ownerName) ==
    IF scripts = <<>> THEN <<>>
    ELSE (IF Head(scripts).type = phase
          THEN <<[script |-> Head(scripts), ownerName |-> ownerName]>> ELSE <<>>)
         \o scriptsOfPhase(Tail(scripts), phase, ownerName)

RECURSIVE collectScripts(_, _)
collectScripts(path, phase) ==
    IF path = <<>> THEN <<>>
    ELSE (IF "scripts" \in DOMAIN Head(path)
          THEN scriptsOfPhase(Head(path).scripts, phase, Head(path).name) ELSE <<>>)
         \o collectScripts(Tail(path), phase)

\* The catch block of handleSendRequest, entered from the step that throws:
\* sd is the send as that step leaves it, logs the log entries at that point.
catchError(s, sd, logs, error) ==
    LET logEntry == LogEntry("error", <<error.message>>, error.scriptType)
        known == \E i \in DOMAIN sd.consoleLogs :
                    \E j \in DOMAIN sd.consoleLogs[i].message :
                        sd.consoleLogs[i].message[j] = error.message
    IN /\ send' = [send EXCEPT ![s] = [sd EXCEPT !.pc = "failed",
                                                 !.error = error]]
       /\ consoleLogs' = IF known THEN logs ELSE Append(logs, logEntry)
       /\ response' = [status |-> 0, body |-> error.message]

\* The catch blocks of getResolvedVariablesAfterScripts and
\* resolveRequestPreview: the error is thrown on to the panel that asked
previewCatch(s, sd, error) ==
    /\ send' = [send EXCEPT ![s] =
                 [sd EXCEPT !.pc = "failed",
                            !.error = Error(<<"Script error during preview">> \o error.message)]]
    /\ UNCHANGED <<consoleLogs, response>>

\* JavaScript runs one task at a time: while a script body executes, no
\* other step of any send is taken
Quiet == \A s \in DOMAIN send : send[s].running = ""

\* handleSendRequest up to the first await inside runPreRequestScripts
SendStart(s, request) ==
    LET seed == initialHeaders(request)
        path == findPath(request.id, project)
        built == buildPmContext(project, request.id, runtimeVariables)
        entered == [IdleSend EXCEPT
                      !.request = request,
                      !.project = project,
                      !.runtimeVariables = runtimeVariables,
                      !.consoleLogs = consoleLogs]
        sd == [entered EXCEPT
                 !.pmContext = [built EXCEPT !.request =
                                   [seeded |-> TRUE, _headers |-> seed.headers]],
                 !.scriptsToRun = collectScripts(path, "pre-request"),
                 !.pc = "pre"]
    IN /\ Quiet
       /\ send[s].pc \in {"idle", "done", "failed"}
       /\ used' = [used EXCEPT !.sends = @ + 1]
       /\ UNCHANGED <<project, runtimeVariables>>
       /\ IF seed.thrown
          THEN catchError(s, entered, <<>>, Error(<<"Invalid name">>))
          ELSE /\ send' = [send EXCEPT ![s] = sd]
               /\ consoleLogs' = <<>>
               /\ response' = NullResponse

\* resolveRequestPreview(request) and getResolvedVariablesAfterScripts(id) up
\* to the first await inside runPreRequestScripts, which they call with a log
\* sink that drops the entries; the preview seeds the script headers with
\* the declared ones, the hint passes none
PreviewStart(s, request, kind) ==
    LET seed == initialHeaders(request)
        built == buildPmContext(project, request.id, runtimeVariables)
        entered == [IdleSend EXCEPT
                      !.kind = kind,
                      !.request = request,
                      !.project = project,
                      !.runtimeVariables = runtimeVariables]
    IN /\ Quiet
       /\ send[s].pc \in {"idle", "done", "failed"}
       /\ kind \in {"resolveRequestPreview", "getResolvedVariablesAfterScripts"}
       /\ IF kind = "resolveRequestPreview" /\ seed.thrown
          THEN previewCatch(s, entered, Error(<<"Invalid name">>))
          ELSE /\ send' = [send EXCEPT ![s] =
                            [entered EXCEPT
                               !.pmContext =
                                   IF kind = "resolveRequestPreview"
                                   THEN [built EXCEPT !.request =
                                            [seeded |-> TRUE, _headers |-> seed.headers]]
                                   ELSE built,
                               !.scriptsToRun = collectScripts(findPath(request.id, project),
                                                               "pre-request"),
                               !.pc = "pre"]]
               /\ UNCHANGED <<consoleLogs, response>>
       /\ UNCHANGED <<project, runtimeVariables, used>>

\* App's getScopedVariables(itemId), the hint of the variable editor: a
\* query of the Project and the overlay
ScopedHint(s, itemId) ==
    /\ Quiet
    /\ send[s].pc \in {"idle", "done", "failed"}
    /\ send' = [send EXCEPT ![s] =
                 [IdleSend EXCEPT
                    !.kind = "getScopedVariables",
                    !.request = [id |-> itemId],
                    !.project = project,
                    !.runtimeVariables = runtimeVariables,
                    !.variablesMap = getScopedVariables(project, itemId, runtimeVariables).obj,
                    !.pc = IF getScopedVariables(project, itemId, runtimeVariables).thrown
                           THEN "failed" ELSE "done"]]
    /\ UNCHANGED <<project, runtimeVariables, consoleLogs, response, used>>

\* a loop that logs with addLog whoever called it
ScriptBegin_logsAlways(s) ==
    LET sd == send[s]
        next == sd.scriptsToRun[sd.idx]
    IN /\ Quiet
       /\ sd.pc \in {"pre", "post"}
       /\ sd.idx <= Len(sd.scriptsToRun)
       /\ consoleLogs' = Append(consoleLogs,
              LogEntry("info", <<<<"Executing", next.script.type, next.ownerName>>>>, "none"))
       /\ send' = [send EXCEPT ![s].running = next.script.id,
                               ![s].idx = @ + 1,
                               ![s].begun = Append(@, next.script.id)]
       /\ UNCHANGED <<project, runtimeVariables, response, used>>

\* The loop of runPre/PostRequestScripts reaches its next script: it is
\* logged and executeScript builds and calls the wrapper function.  The
\* wrapper starts the script body as an async function and returns without
\* returning its promise, so executeScript awaits undefined and the loop
\* goes on as soon as the body yields, ends or throws.
ScriptBegin(s) ==
    LET sd == send[s]
        next == sd.scriptsToRun[sd.idx]
    IN /\ Quiet
       /\ sd.pc \in {"pre", "post"}
       /\ sd.idx <= Len(sd.scriptsToRun)
       /\ consoleLogs' =
             IF sd.kind = "send"
             THEN Append(consoleLogs,
                         LogEntry("info", <<<<"Executing", next.script.type, next.ownerName>>>>,
                                  "none"))
             ELSE consoleLogs
       /\ send' = [send EXCEPT ![s].running = next.script.id,
                               ![s].idx = @ + 1,
                               ![s].begun = Append(@, next.script.id)]
       /\ UNCHANGED <<project, runtimeVariables, response, used>>

\* The script text does not compile: new Function throws, executeScript
\* rethrows a ScriptExecutionError, which leaves the loop and lands in the
\* catch block of handleSendRequest
ScriptSyntaxError(s) ==
    LET sd == send[s]
        next == sd.scriptsToRun[sd.idx]
        logged == Append(consoleLogs,
              LogEntry("info", <<<<"Executing", next.script.type, next.ownerName>>>>, "none"))
    IN /\ Quiet
       /\ sd.pc \in {"pre", "post"}
       /\ sd.idx <= Len(sd.scriptsToRun)
       /\ \E stackLine \in StackLines :
             LET error == ScriptExecutionError(next.ownerName, next.script.type,
                                               errorLine(stackLine))
             IN IF sd.kind = "send"
                THEN catchError(s, sd, logged, error)
                ELSE previewCatch(s, sd, error)
       /\ UNCHANGED <<project, runtimeVariables, used>>

\* a script body whose pm.environment is the RuntimeVariables map and whose
\* pm.globals is Project.globalVariables themselves, not maps built from them
scriptFunction_sharedMaps(sd, call) ==
    LET ctx == applyCall(sd.pmContext, call)
    IN [sd EXCEPT
          !.pmContext = ctx,
          !.runtimeVariables = ctx.environmentMap,
          !.project.globalVariables =
              IF call.accessor = "globals" /\ call.op = "clear" THEN <<>> ELSE @]

\* scriptFunction(pm, pm.require): what one call of the body changes in the
\* send: the maps and headers of its own context
scriptFunction(sd, call) ==
    [sd EXCEPT
       !.pmContext = applyCall(@, call),
       !.added = IF call.accessor = "request.headers" /\ sd.pmContext.request.seeded
                 THEN Append(@, [key |-> call.key, value |-> call.value])
                 ELSE @]

\* the executing script body makes one call on pm
ScriptCall(s, call) ==
    /\ send[s].running # ""
    /\ send' = [send EXCEPT ![s] = scriptFunction(@, call)]
    /\ used' = [used EXCEPT !.steps = @ + 1]
    /\ UNCHANGED <<project, runtimeVariables, consoleLogs, response>>

\* the executing script body awaits something: it is suspended
ScriptAwait(s) ==
    /\ send[s].running # ""
    /\ send' = [send EXCEPT ![s].running = "",
                            ![s].suspended = @ \cup {send[s].running}]
    /\ used' = [used EXCEPT !.steps = @ + 1]
    /\ UNCHANGED <<project, runtimeVariables, consoleLogs, response>>

\* What a suspended body awaited has settled: the body goes on, whatever
\* stage the send has reached, also after the send has ended
ScriptResume(s, id) ==
    /\ Quiet
    /\ send[s].pc \in {"pre", "sending", "post", "done", "failed"}
    /\ id \in send[s].suspended
    /\ send' = [send EXCEPT ![s].running = id,
                            ![s].suspended = @ \ {id}]
    /\ UNCHANGED <<project, runtimeVariables, consoleLogs, response, used>>

\* the executing script body runs to its end
ScriptReturn(s) ==
    /\ send[s].running # ""
    /\ send' = [send EXCEPT ![s].running = "",
                            ![s].ended = @ \cup {send[s].running}]
    /\ UNCHANGED <<project, runtimeVariables, consoleLogs, response, used>>

\* The executing script body throws: the promise of the async body is
\* rejected, and nothing holds that promise, so nothing catches the error
ScriptThrow(s) ==
    /\ send[s].running # ""
    /\ send' = [send EXCEPT ![s].running = "",
                            ![s].threw = @ \cup {send[s].running}]
    /\ used' = [used EXCEPT !.steps = @ + 1]
    /\ UNCHANGED <<project, runtimeVariables, consoleLogs, response>>

\* runPreRequestScripts returns its snapshot; the request is resolved and
\* handed to fetch
PreDone(s) ==
    LET sd == send[s]
        snapshot == variablesAccessor_toObject(sd.pmContext)
        resolved == resolveRequest(sd.request, snapshot.obj, sd.pmContext)
        caught(thrown, error) == IF sd.kind = "send"
                                 THEN catchError(s, thrown, consoleLogs, error)
                                 ELSE previewCatch(s, thrown, error)
    IN /\ Quiet
       /\ sd.pc = "pre"
       /\ sd.idx > Len(sd.scriptsToRun)
       /\ UNCHANGED <<project, runtimeVariables, used>>
       /\ IF snapshot.thrown
          THEN caught(sd, Error(<<"Maximum call stack size exceeded">>))
          ELSE IF sd.kind = "getResolvedVariablesAfterScripts"
          THEN /\ send' = [send EXCEPT ![s] =
                            [sd EXCEPT !.variablesMap = snapshot.obj, !.pc = "done"]]
               /\ UNCHANGED <<consoleLogs, response>>
          ELSE IF resolved.thrown
          THEN caught([sd EXCEPT !.variablesMap = snapshot.obj], Error(resolved.message))
          ELSE /\ send' = [send EXCEPT ![s] =
                            [sd EXCEPT !.variablesMap = snapshot.obj,
                                       !.resolved = resolved,
                                       !.fetches = IF sd.kind = "send" THEN @ + 1 ELSE @,
                                       !.pc = IF sd.kind = "send" THEN "sending" ELSE "done"]]
               /\ UNCHANGED <<consoleLogs, response>>

StatusCodes == {200, 404}

\* a transport step that treats an error status as a rejected fetch
TransportOk_rejectsErrorStatus(s, status) ==
    LET sd == send[s]
        path == findPath(sd.request.id, sd.project)
    IN /\ Quiet
       /\ sd.pc = "sending"
       /\ UNCHANGED <<project, runtimeVariables, used>>
       /\ IF status >= 400
          THEN catchError(s, sd, consoleLogs, Error(<<"Request failed">>))
          ELSE /\ response' = [status |-> status, body |-> <<"body">>]
               /\ send' = [send EXCEPT ![s] =
                            [sd EXCEPT !.pmContext.response = [code |-> status],
                                       !.scriptsToRun = collectScripts(path, "post-request"),
                                       !.idx = 1,
                                       !.pc = "post"]]
               /\ UNCHANGED consoleLogs

\* a transport step after which the post-request scripts get a context built
\* anew from the Project and the overlay
TransportOk_rebuildsContext(s, status) ==
    LET sd == send[s]
        path == findPath(sd.request.id, sd.project)
    IN /\ Quiet
       /\ sd.pc = "sending"
       /\ response' = [status |-> status, body |-> <<"body">>]
       /\ send' = [send EXCEPT ![s] =
                    [sd EXCEPT !.pmContext =
                                  [buildPmContext(sd.project, sd.request.id,
                                                  sd.runtimeVariables)
                                     EXCEPT !.request = sd.pmContext.request,
                                            !.response = [code |-> status]],
                               !.scriptsToRun = collectScripts(path, "post-request"),
                               !.idx = 1,
                               !.pc = "post"]]
       /\ UNCHANGED <<project, runtimeVariables, consoleLogs, used>>

\* fetch answers: the response is shown and runPostRequestScripts starts
TransportOk(s, status) ==
    LET sd == send[s]
        path == findPath(sd.request.id, sd.project)
    IN /\ Quiet
       /\ sd.pc = "sending"
       /\ response' = [status |-> status, body |-> <<"body">>]
       /\ send' = [send EXCEPT ![s] =
                    [sd EXCEPT !.pmContext.response = [code |-> status],
                               !.scriptsToRun = collectScripts(path, "post-request"),
                               !.idx = 1,
                               !.pc = "post"]]
       /\ UNCHANGED <<project, runtimeVariables, consoleLogs, used>>

\* fetch rejects
TransportFail(s) ==
    /\ Quiet
    /\ send[s].pc = "sending"
    /\ catchError(s, send[s], consoleLogs, Error(<<"Failed to fetch">>))
    /\ UNCHANGED <<project, runtimeVariables, used>>

\* a write-back that adds the snapshot to the overlay in place
setRuntimeVariables_merge(current, finalVariables) ==
    [k \in DOMAIN current \cup DOMAIN finalVariables |->
        IF k \in DOMAIN finalVariables THEN finalVariables[k] ELSE current[k]]

\* setRuntimeVariables(finalVariables): the state is replaced by the new map
setRuntimeVariables(current, finalVariables) == finalVariables

\* runPostRequestScripts returns the environment snapshot, which becomes
\* the RuntimeVariables overlay
PostDone(s) ==
    LET sd == send[s]
    IN /\ Quiet
       /\ sd.pc = "post"
       /\ sd.idx > Len(sd.scriptsToRun)
       /\ runtimeVariables' =
             setRuntimeVariables(runtimeVariables,
                                 scopeAccessor_toObject(sd.pmContext, "environmentMap"))
       /\ send' = [send EXCEPT ![s].pc = "done"]
       /\ UNCHANGED <<project, consoleLogs, response, used>>

(***************************************************************************)
(* pm.sendRequest                                                          *)
(***************************************************************************)
\* The ApiRequest built from the argument: a URL string, or an object whose
\* url, method, header list and body mode and raw text are copied
requestOptions(req) ==
    [id |-> "pm-send-request", name |-> "pm.sendRequest", type |-> "request",
     method |-> IF req.isString \/ req.method = "" THEN "GET" ELSE req.method,
     url |-> req.url,
     headers |-> IF req.isString THEN <<>>
                 ELSE [i \in DOMAIN req.header |->
                         Header(req.header[i].key, req.header[i].value,
                                ~req.header[i].disabled)],
     body |-> IF req.isString THEN NoBody
              ELSE Body(req.body.mode, req.body.raw, <<>>, <<>>, GraphQL(<<>>, <<>>)),
     scripts |-> <<>>]

\* callback(err, res): the function the script passed is run with the two
\* arguments; what it does to pm is one call, and it may end by throwing
callback(sd, i, err, code) ==
    [sd EXCEPT
       !.pmContext = IF sd.sent[i].callback.call = NoCall THEN @
                     ELSE applyCall(@, sd.sent[i].callback.call),
       !.sent[i].invoked = Append(@, [err |-> err, code |-> code])]

\* The executing script body calls pm.sendRequest(req, callback).  The async
\* function the call starts runs up to its first await inside the call: the
\* options are built and resolved against pm.variables.toObject() and empty
\* script headers, and fetch is called.  A throw up to there is caught by
\* the catch block, which calls the callback at once.
ScriptSendRequest(s, req, cb) ==
    LET sd == send[s]
        options == requestOptions(req)
        currentVariables == variablesAccessor_toObject(sd.pmContext)
        resolved == resolveRequest(options, currentVariables.obj,
                                   [request |-> [seeded |-> TRUE,
                                                 _headers |-> EmptyHeaders]])
        i == Len(sd.sent) + 1
        called == [sd EXCEPT !.sent = Append(@,
                      [by |-> sd.running, requestOptions |-> options, callback |-> cb,
                       currentVariables |-> currentVariables.obj,
                       resolved |-> resolved, fetches |-> 0, invoked |-> <<>>,
                       pc |-> "fetching"])]
    IN /\ sd.running # ""
       /\ send' = [send EXCEPT ![s] =
                    IF currentVariables.thrown \/ resolved.thrown
                    THEN [callback(called, i, "error", 0) EXCEPT !.sent[i].pc = "thrown"]
                    ELSE [called EXCEPT !.sent[i].fetches = 1]]
       /\ used' = [used EXCEPT !.steps = @ + 1]
       /\ UNCHANGED <<project, runtimeVariables, consoleLogs, response>>

\* The fetch of a pm.sendRequest answers: callback(null, pmResponse) is the
\* last statement of the try block, so a throw of the callback lands in the
\* catch block, which calls callback(err, undefined)
SendRequestOk(s, i, status) ==
    LET sd == send[s]
        first == callback(sd, i, "null", status)
    IN /\ Quiet
       /\ i \in DOMAIN sd.sent
       /\ sd.sent[i].pc = "fetching"
       /\ send' = [send EXCEPT ![s] =
                    [(IF sd.sent[i].callback.throws
                      THEN callback(first, i, "error", 0) ELSE first)
                        EXCEPT !.sent[i].pc = "answered"]]
       /\ UNCHANGED <<project, runtimeVariables, consoleLogs, response, used>>

\* the fetch of a pm.sendRequest rejects: the catch block calls the callback
SendRequestFail(s, i) ==
    LET sd == send[s]
    IN /\ Quiet
       /\ i \in DOMAIN sd.sent
       /\ sd.sent[i].pc = "fetching"
       /\ send' = [send EXCEPT ![s] =
                    [callback(sd, i, "error", 0) EXCEPT !.sent[i].pc = "rejected"]]
       /\ UNCHANGED <<project, runtimeVariables, consoleLogs, response, used>>

(***************************************************************************)
(* Specifications                                                          *)
(***************************************************************************)
MaxSends == 2
MaxSteps == 1

\* a request whose id is no longer in the document
reqGone == [req3 EXCEPT !.id = "gone"]

Requests == {req1, req2, req3, reqGone}

PipelineProjects ==
    {MakeProject(PlainGlobals, CollVars, F1Vars, F2Vars, CollVarsB, <<>>),
     MakeProject(CycleGlobals, <<>>, <<>>, <<>>, <<>>, <<>>)}

Init ==
    /\ project \in PipelineProjects
    /\ runtimeVariables = EmptyMap
    /\ consoleLogs = <<>>
    /\ response = NullResponse
    /\ send = [s \in SendIds |-> IdleSend]
    /\ used = [sends |-> 0, steps |-> 0]

Next ==
    \E s \in SendIds :
        \/ \E request \in Requests : used.sends < MaxSends /\ SendStart(s, request)
        \/ ScriptBegin(s)
        \/ ScriptSyntaxError(s)
        \/ \E call \in PipelineCalls : used.steps < MaxSteps /\ ScriptCall(s, call)
        \/ used.steps < MaxSteps /\ ScriptAwait(s)
        \/ \E id \in send[s].suspended : ScriptResume(s, id)
        \/ ScriptReturn(s)
        \/ used.steps < MaxSteps /\ ScriptThrow(s)
        \/ PreDone(s)
        \/ \E status \in StatusCodes : TransportOk(s, status)
        \/ TransportFail(s)
        \/ PostDone(s)

Spec == Init /\ [][Next]_vars

\* Sends of one request whose scripts await: an await and what the body does
\* after it take two script steps
MaxAsyncSteps == 2

AsyncRequests == {req1}

InitAsync ==
    /\ project = MakeProject(PlainGlobals, CollVars, F1Vars, F2Vars, CollVarsB, <<>>)
    /\ runtimeVariables = EmptyMap
    /\ consoleLogs = <<>>
    /\ response = NullResponse
    /\ send = [s \in SendIds |-> IdleSend]
    /\ used = [sends |-> 0, steps |-> 0]

NextAsync ==
    \E s \in SendIds :
        \/ \E request \in AsyncRequests :
              used.sends < MaxSends /\ SendStart(s, request)
        \/ ScriptBegin(s)
        \/ ScriptSyntaxError(s)
        \/ \E call \in PipelineCalls :
              used.steps < MaxAsyncSteps /\ ScriptCall(s, call)
        \/ used.steps < MaxAsyncSteps /\ ScriptAwait(s)
        \/ \E id \in send[s].suspended : ScriptResume(s, id)
        \/ ScriptReturn(s)
        \/ used.steps < MaxAsyncSteps /\ ScriptThrow(s)
        \/ PreDone(s)
        \/ \E status \in StatusCodes : TransportOk(s, status)
        \/ TransportFail(s)
        \/ PostDone(s)

SpecAsync == InitAsync /\ [][NextAsync]_vars

\* Sends of one request in every body mode: the form lists are empty, all
\* disabled or mixed, Content-Type is declared, added by a script or absent
BodyPairs ==
    <<Variable(<<Lit("k1")>>, <<Var("a")>>, TRUE),
      Variable(<<Lit("k2")>>, <<Lit("v")>>, FALSE),
      Variable(<<Var("b")>>, <<Lit("v2")>>, TRUE)>>

BodyLists == {<<>>, <<Variable(<<Lit("k2")>>, <<Lit("v")>>, FALSE)>>, BodyPairs}

BodyQueries == {<<>>, <<Lit("q"), Var("a")>>}

\* absent, blank, valid, invalid, and valid or not by the value of a
BodyVariables ==
    {<<>>, <<Lit(" ")>>, <<Lit(" "), Lit("{}")>>, <<Lit("{")>>, <<Lit("{"), Var("a")>>}

Bodies ==
    {NoBody, Body("binary", <<>>, <<>>, <<>>, GraphQL(<<>>, <<>>)),
     Body("raw", <<>>, <<>>, <<>>, GraphQL(<<>>, <<>>)),
     Body("raw", <<Lit("x"), Var("a")>>, <<>>, <<>>, GraphQL(<<>>, <<>>))}
    \cup {Body("x-www-form-urlencoded", <<>>, <<>>, l, GraphQL(<<>>, <<>>)) :
            l \in BodyLists}
    \cup {Body("form-data", <<>>, l, <<>>, GraphQL(<<>>, <<>>)) : l \in BodyLists}
    \cup {Body("graphql", <<>>, <<>>, <<>>, GraphQL(q, v)) :
            q \in BodyQueries, v \in BodyVariables}

BodyHeaders ==
    {req1.headers,
     <<Header(ContentType, <<Lit("text/plain")>>, TRUE)>> \o req1.headers}

BodyRequests ==
    {[req1 EXCEPT !.method = "POST", !.headers = h, !.body = b] :
        h \in BodyHeaders, b \in Bodies}

BodyCalls ==
    <<Call("request.headers", "add", ContentType, <<Lit("text/xml")>>),
      Call("environment", "set", "a", Str(<<Lit("}")>>))>>

NextBody ==
    \E s \in SendIds :
        \/ \E request \in BodyRequests : used.sends = 0 /\ SendStart(s, request)
        \/ ScriptBegin(s)
        \/ ScriptSyntaxError(s)
        \/ \E i \in DOMAIN BodyCalls :
              used.steps < MaxSteps /\ ScriptCall(s, BodyCalls[i])
        \/ used.steps < MaxSteps /\ ScriptAwait(s)
        \/ \E id \in send[s].suspended : ScriptResume(s, id)
        \/ ScriptReturn(s)
        \/ used.steps < MaxSteps /\ ScriptThrow(s)
        \/ PreDone(s)
        \/ \E status \in StatusCodes \cup {500} : TransportOk(s, status)
        \/ TransportFail(s)
        \/ PostDone(s)

SpecBody == InitAsync /\ [][NextBody]_vars

\* Sends of the request two folders deep whose scripts set, unset and clear
\* on every accessor, started with and without an overlay left by earlier sends
FrameCalls ==
    {Call(acc, "set", "a", Str(<<Lit("s")>>)) : acc \in Accessors}
    \cup {Call(acc, "unset", "a", undefined) : acc \in Accessors}
    \cup {Call(acc, "clear", "", undefined) : acc \in Accessors}

FrameOverlays == {EmptyMap, [k \in {"a"} |-> Str(<<Lit("r")>>)]}

InitFrame ==
    /\ project = MakeProject(PlainGlobals, CollVars, F1Vars, F2Vars, CollVarsB, <<>>)
    /\ runtimeVariables \in FrameOverlays
    /\ consoleLogs = <<>>
    /\ response = NullResponse
    /\ send = [s \in SendIds |-> IdleSend]
    /\ used = [sends |-> 0, steps |-> 0]

NextFrame ==
    \E s \in SendIds :
        \/ used.sends < MaxSends /\ SendStart(s, req2)
        \/ ScriptBegin(s)
        \/ ScriptSyntaxError(s)
        \/ \E call \in FrameCalls : used.steps < MaxSteps /\ ScriptCall(s, call)
        \/ used.steps < MaxSteps /\ ScriptAwait(s)
        \/ \E id \in send[s].suspended : ScriptResume(s, id)
        \/ ScriptReturn(s)
        \/ used.steps < MaxSteps /\ ScriptThrow(s)
        \/ PreDone(s)
        \/ \E status \in StatusCodes : TransportOk(s, status)
        \/ TransportFail(s)
        \/ PostDone(s)

SpecFrame == InitFrame /\ [][NextFrame]_vars

\* Resolver runs: an input (a text, the empty text, a number, undefined) and
\* a lookup map, as resolveRequest hands them to recursiveVariableResolver;
\* the maps hold literals, numbers, templates, and templates that never
\* settle (a -> x{{a}}, a -> {{b}} -> {{a}})
ResolverTexts ==
    {<<Lit("plain")>>, <<Var("a")>>, <<Var("a"), Lit("/"), Var("b")>>,
     <<Lit("p"), Var("b")>>, <<Var("u")>>, <<Var("u"), Var("a")>>}

ResolverValues(key) ==
    IF key = "a"
    THEN {undefined, Str(<<Lit("v")>>), Str(<<Var("b")>>), Str(<<Lit("x"), Var("a")>>),
          Str(<<Var("a")>>), Str(<<>>)}
    ELSE {undefined, Str(<<Lit("w")>>), Str(<<Var("a")>>), Num(<<Lit("7")>>),
          Str(<<Var("b"), Var("u")>>)}

ResolverLookups ==
    {[k \in {j \in Keys : f[j] # undefined} |-> f[k]] :
        f \in {g \in [Keys -> ResolverValues("a") \cup ResolverValues("b")] :
                  \A k \in Keys : g[k] \in ResolverValues(k)}}

InitResolver ==
    /\ project = MakeProject(PlainGlobals, <<>>, <<>>, <<>>, <<>>, <<>>)
    /\ runtimeVariables = EmptyMap
    /\ consoleLogs = <<>>
    /\ response = NullResponse
    /\ used = [sends |-> 0, steps |-> 0]
    /\ \E input \in {Str(text) : text \in ResolverTexts}
                      \cup {Str(<<>>), Num(<<Lit("7")>>), undefined},
          lookup \in ResolverLookups :
          send = [s \in SendIds |->
                    [IdleSend EXCEPT !.pc = "resolving",
                                     !.request = [req3 EXCEPT !.url = input],
                                     !.variablesMap = lookup]]

\* resolvedUrl = recursiveVariableResolver(request.url, variablesForResolver)
ResolveUrl(s) ==
    LET sd == send[s]
        result == recursiveVariableResolver(sd.request.url, sd.variablesMap)
    IN /\ sd.pc = "resolving"
       /\ send' = [send EXCEPT
                     ![s].pc = "resolved",
                     ![s].resolved = [thrown |-> result = RangeError,
                                      message |-> NoThrow,
                                      resolvedUrl |-> result,
                                      resolvedHeaders |-> EmptyHeaders,
                                      resolvedBody |-> undefinedBody]]
       /\ UNCHANGED <<project, runtimeVariables, consoleLogs, response, used>>

NextResolver == \E s \in SendIds : ResolveUrl(s)

SpecResolver == InitResolver /\ [][NextResolver]_vars

\* Two sends of one request in flight at once (the Send button stays enabled while a
\* send is running), its script setting one environment key or another
RaceIds == {1, 2}

RaceCalls ==
    {Call("environment", "set", "a", Str(<<Lit("s")>>)),
     Call("environment", "set", "b", Str(<<Lit("t")>>))}

\* the request of the second collection, with one pre-request script
reqRace == [req3 EXCEPT !.scripts = <<Script("r3pre", "pre-request")>>]

RaceProject ==
    [MakeProject(PlainGlobals, CollVars, F1Vars, F2Vars, <<>>, <<>>)
        EXCEPT !.collections[2].items[1].items[1] = reqRace]

InitRace ==
    /\ project = RaceProject
    /\ runtimeVariables = EmptyMap
    /\ consoleLogs = <<>>
    /\ response = NullResponse
    /\ send = [s \in RaceIds |-> IdleSend]
    /\ used = [sends |-> 0, steps |-> 0]

NextRace ==
    \E s \in RaceIds :
        \/ send[s].pc = "idle" /\ SendStart(s, reqRace)
        \/ ScriptBegin(s)
        \/ ScriptSyntaxError(s)
        \/ \E call \in RaceCalls : used.steps < MaxAsyncSteps /\ ScriptCall(s, call)
        \/ used.steps < MaxAsyncSteps /\ ScriptAwait(s)
        \/ \E id \in send[s].suspended : ScriptResume(s, id)
        \/ ScriptReturn(s)
        \/ used.steps < MaxAsyncSteps /\ ScriptThrow(s)
        \/ PreDone(s)
        \/ \E status \in StatusCodes : TransportOk(s, status)
        \/ TransportFail(s)
        \/ PostDone(s)

SpecRace == InitRace /\ [][NextRace]_vars

\* Sends of a request whose scripts call pm.sendRequest: a URL string, an
\* object with a header and a raw body, an object whose header name is not
\* a token; the callback sets a variable or throws
SendRequestArguments ==
    {[isString |-> TRUE, url |-> <<Var("a"), Lit("/ping")>>, method |-> "",
      header |-> <<>>, body |-> NoBody],
     [isString |-> FALSE, url |-> <<Var("a"), Lit("/token")>>, method |-> "POST",
      header |-> <<[key |-> <<Lit("X-Tok")>>, value |-> <<Var("b")>>, disabled |-> FALSE]>>,
      body |-> Body("raw", <<Lit("id="), Var("a")>>, <<>>, <<>>, GraphQL(<<>>, <<>>))],
     [isString |-> FALSE, url |-> <<Lit("/bad")>>, method |-> "",
      header |-> <<[key |-> <<>>, value |-> <<Lit("x")>>, disabled |-> FALSE]>>,
      body |-> NoBody]}

SendRequestCallbacks ==
    {[call |-> Call("environment", "set", "b", Str(<<Lit("cb")>>)), throws |-> FALSE],
     [call |-> NoCall, throws |-> TRUE]}

\* the request of the second collection, with one script of each phase
reqSendRequest ==
    [req3 EXCEPT !.scripts = <<Script("r3pre", "pre-request"),
                               Script("r3post", "post-request")>>]

InitSendRequest ==
    /\ project = [MakeProject(PlainGlobals, CollVars, F1Vars, F2Vars, <<>>, <<>>)
                     EXCEPT !.collections[2].items[1].items[1] = reqSendRequest]
    /\ runtimeVariables = EmptyMap
    /\ consoleLogs = <<>>
    /\ response = NullResponse
    /\ send = [s \in SendIds |-> IdleSend]
    /\ used = [sends |-> 0, steps |-> 0]

NextSendRequest ==
    \E s \in SendIds :
        \/ send[s].pc = "idle" /\ SendStart(s, reqSendRequest)
        \/ ScriptBegin(s)
        \/ /\ used.steps < MaxAsyncSteps
           /\ ScriptCall(s, Call("environment", "set", "a", Str(<<Lit("s")>>)))
        \/ \E req \in SendRequestArguments, cb \in SendRequestCallbacks :
              used.steps < MaxAsyncSteps /\ ScriptSendRequest(s, req, cb)
        \/ ScriptReturn(s)
        \/ PreDone(s)
        \/ TransportOk(s, 200)
        \/ TransportFail(s)
        \/ PostDone(s)
        \/ \E i \in DOMAIN send[s].sent : SendRequestOk(s, i, 200)
        \/ \E i \in DOMAIN send[s].sent : SendRequestFail(s, i)

SpecSendRequest == InitSendRequest /\ [][NextSendRequest]_vars

\* a removal that puts the children of the removed item in its place
RECURSIVE remove_keepsChildren(_, _)
remove_keepsChildren(items, id) ==
    IF items = <<>> THEN <<>>
    ELSE LET item == Head(items)
         IN (IF item.id = id
             THEN (IF "items" \in DOMAIN item THEN item.items ELSE <<>>)
             ELSE IF "items" \in DOMAIN item
             THEN <<[item EXCEPT !.items = remove_keepsChildren(@, id)]>>
             ELSE <<item>>)
            \o remove_keepsChildren(Tail(items), id)

\* handleDelete's remove(items): the items without the one to delete, the
\* children of every item that stays filtered the same way
RECURSIVE remove(_, _)
remove(items, id) ==
    IF items = <<>> THEN <<>>
    ELSE LET item == Head(items)
         IN (IF item.id = id THEN <<>>
             ELSE IF "items" \in DOMAIN item
             THEN <<[item EXCEPT !.items = remove(@, id)]>>
             ELSE <<item>>)
            \o remove(Tail(items), id)

\* handleDelete on the item of the context menu; confirmed is the answer of
\* window.confirm
HandleDelete(itemToDelete, confirmed) ==
    /\ Quiet
    /\ project' = IF confirmed
                  THEN [project EXCEPT !.collections = remove(@, itemToDelete.id)]
                  ELSE project
    /\ UNCHANGED <<runtimeVariables, consoleLogs, response, send, used>>

\* the ids of the items of the documents
TreeIds == {"coll1", "req1", "f1", "f2", "req2", "coll2", "f3", "req3"}

\* Tree runs: deletions, one after another, from the context menu of an item
\* shown in the tree
InitTree ==
    /\ project \in {MakeProject(PlainGlobals, CollVars, F1Vars, F2Vars, CollVarsB, <<>>),
                    MakeProject(TemplateGlobals, CollVarsB, F1Vars, F2VarsOff, <<>>, F1Vars),
                    MakeProject(PlainGlobals, <<>>, <<>>, F2Vars, <<>>, <<>>),
                    MakeProject(CycleGlobals, <<>>, <<>>, <<>>, <<>>, <<>>)}
    /\ runtimeVariables = EmptyMap
    /\ consoleLogs = <<>>
    /\ response = NullResponse
    /\ send = [s \in SendIds |-> IdleSend]
    /\ used = [sends |-> 0, steps |-> 0]

NextTree ==
    \E id \in TreeIds, confirmed \in BOOLEAN :
        /\ findPath(id, project) # null
        /\ HandleDelete(findPath(id, project)[Len(findPath(id, project))], confirmed)

SpecTree == InitTree /\ [][NextTree]_vars

\* A session: sends of the request two folders deep and of a request under
\* another folder, which declares b alone, with previews and hints of the
\* first; a script sets a in the environment, the collection or the globals
F3Vars == <<Variable("b", <<Lit("e3b")>>, TRUE)>>

SessionCalls ==
    {Call("environment", "set", "a", Str(<<Lit("s")>>)),
     Call("globals", "set", "a", Str(<<Lit("s")>>)),
     Call("collectionVariables", "set", "a", Str(<<Lit("s")>>))}

SessionRequests == {req2, reqSendRequest}

InitSession ==
    /\ project = [MakeProject(PlainGlobals, <<>>, F1Vars, F2Vars, <<>>, F3Vars)
                     EXCEPT !.collections[2].items[1].items[1] = reqSendRequest]
    /\ runtimeVariables = EmptyMap
    /\ consoleLogs = <<>>
    /\ response = NullResponse
    /\ send = [s \in SendIds |-> IdleSend]
    /\ used = [sends |-> 0, steps |-> 0]

NextSession ==
    \E s \in SendIds :
        \/ \E request \in SessionRequests : used.sends < MaxSends /\ SendStart(s, request)
        \/ \E kind \in {"resolveRequestPreview", "getResolvedVariablesAfterScripts"} :
              PreviewStart(s, req2, kind)
        \/ ScopedHint(s, req2.id)
        \/ ScriptBegin(s)
        \/ ScriptSyntaxError(s)
        \/ \E call \in SessionCalls : used.steps < MaxSteps /\ ScriptCall(s, call)
        \/ ScriptReturn(s)
        \/ PreDone(s)
        \/ TransportOk(s, 200)
        \/ TransportFail(s)
        \/ PostDone(s)

SpecSession == InitSession /\ [][NextSession]_vars

\* Scope runs: the context of one item and the calls script bodies make on it
ScopeStarts ==
    {<<MakeProject(PlainGlobals, CollVars, F1Vars, F2Vars, CollVarsB, <<>>), "req2">>,
     <<MakeProject(PlainGlobals, CollVars, F1Vars, F2Vars, CollVarsB, <<>>), "gone">>,
     <<MakeProject(TemplateGlobals, CollVarsB, F1Vars, F2VarsOff, <<>>, F1Vars), "req1">>,
     <<MakeProject(CycleGlobals, <<>>, <<>>, <<>>, <<>>, <<>>), "f1">>}

InitScope ==
    /\ runtimeVariables = EmptyMap
    /\ consoleLogs = <<>>
    /\ response = NullResponse
    /\ used = [sends |-> 0, steps |-> 0]
    /\ \E start \in ScopeStarts :
          /\ project = start[1]
          /\ send = [s \in SendIds |->
                      [IdleSend EXCEPT
                         !.pc = "script",
                         !.request = [id |-> start[2]],
                         !.project = project,
                         !.pmContext = buildPmContext(project, start[2], runtimeVariables)]]

ScopeCall(s, call) ==
    /\ send[s].pc = "script"
    /\ send' = [send EXCEPT ![s].pmContext = applyCall(@, call),
                            ![s].before = IF call.accessor = "variables"
                                          THEN send[s].pmContext ELSE NoContext,
                            ![s].last = [call EXCEPT !.value = undefined]]
    /\ UNCHANGED <<project, runtimeVariables, consoleLogs, response, used>>

NextScope == \E s \in SendIds : \E call \in ScopeCalls : ScopeCall(s, call)

SpecScope == InitScope /\ [][NextScope]_vars

(***************************************************************************)
(* Properties of the Scope Store, checked on SpecScope                     *)
(***************************************************************************)
\* what pm.variables.get(key) gives when raw is the value it starts from:
\* a string is resolved against the whole context, anything else is returned
computedFrom(ctx, key, raw) ==
    IF raw.type = "string"
    THEN recursiveVariableResolver(raw,
             [k \in Keys |-> variablesAccessor_get(ctx, k, {key})])
    ELSE raw

\* C1: for every key k and every content of the three scope maps that script
\* calls reach, pm.variables.get(k) is computed from the environment value
\* when k is in the environment map, otherwise from the collection value when
\* k is in the collection map, otherwise from the global value when k is in
\* the globals map, and is undefined when k is in none of them.
C1_UnifiedPrecedence ==
    \A s \in SendIds : \A k \in Keys :
        LET ctx == send[s].pmContext
        IN variablesGet(ctx, k) =
             IF k \in DOMAIN ctx.environmentMap
             THEN computedFrom(ctx, k, ctx.environmentMap[k])
             ELSE IF k \in DOMAIN ctx.collectionMap
             THEN computedFrom(ctx, k, ctx.collectionMap[k])
             ELSE IF k \in DOMAIN ctx.globalsMap
             THEN computedFrom(ctx, k, ctx.globalsMap[k])
             ELSE undefined

\* C1 witness: after a script call, a key sits in all three maps with three
\* different plain values and the unified getter gives the environment one,
\* while another key is in no map and reads undefined
C1_Witness ==
    \E s \in SendIds :
        LET ctx == send[s].pmContext
        IN /\ send[s].last.op = "set"
           /\ "a" \in DOMAIN ctx.environmentMap
           /\ "a" \in DOMAIN ctx.collectionMap
           /\ "a" \in DOMAIN ctx.globalsMap
           /\ ctx.environmentMap["a"] = Str(<<Lit("s")>>)
           /\ ctx.collectionMap["a"] = Str(<<Lit("c")>>)
           /\ ctx.globalsMap["a"] = Str(<<Lit("g")>>)
           /\ variablesGet(ctx, "a") = Str(<<Lit("s")>>)

\* C3: when scope variables are defined cyclically (a = "{{b}}" and
\* b = "{{a}}"), pm.variables.get('a'), pm.variables.toObject() and
\* getScopedVariables terminate and return a string that still contains an
\* unresolved placeholder, instead of looping forever or crashing.
C3_CycleProtection ==
    \A s \in SendIds :
        LET ctx == send[s].pmContext
        IN (/\ rawValue(ctx, "a") = Str(<<Var("b")>>)
            /\ rawValue(ctx, "b") = Str(<<Var("a")>>))
           => /\ variablesGet(ctx, "a").type = "string"
              /\ unresolvedRegex_test(variablesGet(ctx, "a").v)
              /\ ~variablesAccessor_toObject(ctx).thrown
              /\ send[s].last = NoCall =>
                    ~getScopedVariables(project, send[s].request.id,
                                        runtimeVariables).thrown

\* C4: for a key x whose raw value in a scope map is the template "{{y}}",
\* the accessor of that scope returns the raw template unchanged, while
\* pm.variables.get(x) returns y's effective value when y is defined in any
\* scope and the unchanged template when y is defined nowhere.
C4_ScopedVersusUnified ==
    \A s \in SendIds : \A scope \in ScopeNames : \A x \in Keys : \A y \in Keys :
        LET ctx == send[s].pmContext
        IN (x \in DOMAIN ctx[scope] /\ ctx[scope][x] = Str(<<Var(y)>>))
           => /\ scopeAccessor_get(ctx, scope, x) = Str(<<Var(y)>>)
              /\ IF variablesAccessor_has(ctx, y)
                 THEN /\ variablesGet(ctx, y) # RangeError
                      /\ variablesGet(ctx, x) = Str(String(variablesGet(ctx, y)))
                 ELSE variablesGet(ctx, x) = Str(<<Var(y)>>)

\* C5: pm.variables.set, unset and clear change only the environment map:
\* the globals and collection maps are as before the call, and after
\* pm.variables.unset(k) or pm.variables.clear() a key k that is also in the
\* collection or globals map still satisfies pm.variables.has(k) and
\* pm.variables.get(k) returns the collection (else global) value.
C5_VariablesFrame ==
    \A s \in SendIds :
        LET ctx == send[s].pmContext
            last == send[s].last
        IN last.accessor = "variables"
           => /\ ctx.globalsMap = send[s].before.globalsMap
              /\ ctx.collectionMap = send[s].before.collectionMap
              /\ \A k \in Keys :
                    (/\ (last.op = "unset" /\ last.key = k) \/ last.op = "clear"
                     /\ k \in DOMAIN ctx.collectionMap \cup DOMAIN ctx.globalsMap)
                    => /\ variablesAccessor_has(ctx, k)
                       /\ variablesGet(ctx, k) # RangeError
                       /\ variablesGet(ctx, k) =
                            computedFrom(ctx, k,
                                IF k \in DOMAIN ctx.collectionMap
                                THEN ctx.collectionMap[k] ELSE ctx.globalsMap[k])

(***************************************************************************)
(* Properties of the Execution Pipeline, checked on Spec                   *)
(***************************************************************************)
\* the places on an item's chain of the folders that declare k enabled
declaringFolders(path, k) ==
    IF path = null THEN {}
    ELSE {i \in 2..Len(path) :
            /\ "variables" \in DOMAIN path[i]
            /\ \E j \in DOMAIN path[i].variables :
                  path[i].variables[j].key = k /\ path[i].variables[j].enabled}

Deepest(places) == CHOOSE i \in places : \A j \in places : j <= i

\* the context of a send is as buildPmContext left it: no script has begun
justBuilt(sd) == sd.pc = "pre" /\ sd.begun = <<>>

\* C2: in the environment map buildPmContext builds for an item, a key that
\* several folders of the ancestor chain declare (enabled) takes the value
\* of the deepest folder; a key that is also in the incoming
\* RuntimeVariables takes the runtime value; disabled variables contribute
\* nothing; the root collection's variables are never placed in the map.
C2_EnvironmentMap ==
    \A s \in SendIds :
        LET sd == send[s]
            path == findPath(sd.request.id, sd.project)
            env == sd.pmContext.environmentMap
        IN justBuilt(sd)
           => \A k \in Keys :
                 LET places == declaringFolders(path, k)
                 IN IF k \in DOMAIN sd.runtimeVariables
                    THEN k \in DOMAIN env /\ env[k] = sd.runtimeVariables[k]
                    ELSE IF places # {}
                    THEN /\ k \in DOMAIN env
                         /\ \E j \in DOMAIN path[Deepest(places)].variables :
                               LET v == path[Deepest(places)].variables[j]
                               IN v.key = k /\ v.enabled /\ env[k] = Str(v.value)
                    ELSE k \notin DOMAIN env

\* C2 witness: a request two folders deep is sent under an overlay that an
\* earlier send's script left with a alone: a takes the runtime value over
\* the outer folder's (the inner folder's a is disabled and the collection
\* declares a too), b takes the inner folder's value over the outer one's
C2_Witness ==
    \E s \in SendIds :
        LET sd == send[s]
            path == findPath(sd.request.id, sd.project)
        IN /\ justBuilt(sd)
           /\ sd.request.id = "req2"
           /\ sd.runtimeVariables = [k \in {"a"} |-> Str(<<Lit("s")>>)]
           /\ declaringFolders(path, "a") = {2}
           /\ declaringFolders(path, "b") = {2, 3}
           /\ \E j \in DOMAIN path[3].variables :
                 path[3].variables[j].key = "a" /\ ~path[3].variables[j].enabled
           /\ "a" \in DOMAIN sd.pmContext.collectionMap
           /\ sd.pmContext.environmentMap
                = [k \in {"a", "b"} |-> IF k = "a" THEN Str(<<Lit("s")>>)
                                        ELSE Str(<<Lit("e2b")>>)]

\* the ids of the scripts of one phase along a chain, in the order the spec
\* gives: collection, folders from the shallowest, the item, each node's
\* scripts in array order
RECURSIVE chainIds(_, _)
chainIds(path, phase) ==
    IF path = <<>> THEN <<>>
    ELSE LET own == IF "scripts" \in DOMAIN Head(path)
                    THEN SelectSeq(Head(path).scripts, LAMBDA sc : sc.type = phase)
                    ELSE <<>>
         IN [i \in DOMAIN own |-> own[i].id] \o chainIds(Tail(path), phase)

\* the script bodies that have started and not completed
live(sd) == sd.suspended \cup (IF sd.running = "" THEN {} ELSE {sd.running})

\* C6: the scripts of the matching phase on the item's chain run one at a
\* time, collection first, then the folders from the shallowest, then the
\* item, a node's scripts in array order; each script has completed before
\* the next one starts, each runs exactly once, none of the other phase runs.
C6_ScriptOrder ==
    \A s \in SendIds :
        LET sd == send[s]
            path == findPath(sd.request.id, sd.project)
            pre == chainIds(path, "pre-request")
            post == chainIds(path, "post-request")
        IN sd.pc \in {"pre", "sending", "post", "done"}
           => /\ Len(sd.begun) <= Len(pre \o post)
              /\ sd.begun = SubSeq(pre \o post, 1, Len(sd.begun))
              /\ sd.pc = "pre" => Len(sd.begun) <= Len(pre)
              /\ sd.pc = "sending" => sd.begun = pre
              /\ sd.pc = "post" => Len(sd.begun) >= Len(pre)
              /\ sd.pc = "done" => sd.begun = pre \o post
              /\ Cardinality(live(sd)) <= 1

\* C7: when a script of a phase throws, no later script on the chain is
\* started and no "Executing" log entry is emitted for one, the run rejects
\* with a ScriptExecutionError whose scriptType is the phase of the failing
\* script, and a failing pre-request script means no transport call and no
\* post-request script.
C7_ScriptThrowAborts ==
    \A s \in SendIds :
        LET sd == send[s]
            path == findPath(sd.request.id, sd.project)
            pre == chainIds(path, "pre-request")
            isPre(id) == \E i \in DOMAIN pre : pre[i] = id
        IN \A id \in sd.threw :
              /\ sd.begun[Len(sd.begun)] = id
              /\ Cardinality({i \in DOMAIN consoleLogs : consoleLogs[i].type = "info"})
                    = Len(sd.begun)
              /\ sd.pc \notin {"sending", "done"}
              /\ sd.pc = "post" => ~isPre(id)
              /\ sd.pc = "failed" =>
                    /\ sd.error.isScriptError
                    /\ sd.error.scriptType =
                          (IF isPre(id) THEN "pre-request" ELSE "post-request")
              /\ isPre(id) => sd.fetches = 0

\* C8: in a send, every enabled declared header whose value holds a
\* placeholder of a variable defined in scope appears in the resolved
\* headers with the placeholder replaced by the variable's value, and
\* disabled headers do not appear.
C8_DeclaredHeadersResolved ==
    \A s \in SendIds :
        LET sd == send[s]
            sent == sd.resolved.resolvedHeaders
        IN (sd.pc = "sending" /\ sd.added = <<>>)
           => \A i \in DOMAIN sd.request.headers :
                 LET h == sd.request.headers[i]
                 IN IF h.enabled
                    THEN (\E j \in DOMAIN h.value :
                             /\ h.value[j].t = "var"
                             /\ h.value[j].v \in DOMAIN sd.variablesMap)
                         => /\ lower(h.key) \in DOMAIN sent
                            /\ sent[lower(h.key)] =
                                 recursiveVariableResolver(Str(h.value),
                                                           sd.variablesMap).v
                    ELSE lower(h.key) \notin DOMAIN sent

\* C9: when a pre-request script calls pm.request.headers.add with the key
\* of an enabled declared header, the resolved request carries exactly the
\* script's value for that key; a script-added header with a new key is
\* present with the script's value.
C9_ScriptHeaderWins ==
    \A s \in SendIds :
        LET sd == send[s]
            sent == sd.resolved.resolvedHeaders
        IN (sd.pc = "sending" /\ live(sd) = {})
           => \A i \in DOMAIN sd.added :
                 (\A j \in DOMAIN sd.added : sd.added[j].key = sd.added[i].key => j = i)
                 => /\ lower(sd.added[i].key) \in DOMAIN sent
                    /\ sent[lower(sd.added[i].key)] = sd.added[i].value

\* no node on the chain of the request of a send has a pre-request script
noPreRequestScripts(sd) ==
    chainIds(findPath(sd.request.id, sd.project), "pre-request") = <<>>

\* C10: whenever no node on the item's chain has a pre-request script,
\* getScopedVariables gives the same key-to-value mapping as the
\* variablesMap of runPreRequestScripts for the same project, item (an
\* unknown id included) and runtime overlay.
C10_HintsMatchPreRun ==
    \A s \in SendIds :
        LET sd == send[s]
            scoped == getScopedVariables(sd.project, sd.request.id, sd.runtimeVariables)
        IN noPreRequestScripts(sd)
           => /\ sd.pc \in {"sending", "post", "done"}
                    => ~scoped.thrown /\ sd.variablesMap = scoped.obj
              /\ (sd.pc = "failed" /\ sd.fetches = 0) => scoped.thrown

\* C10 witness: a request without scripts on its chain is sent under a
\* non-empty overlay left by an earlier send, and the variablesMap holds the
\* overlay's a and a collection template resolved through it
C10_Witness ==
    \E s \in SendIds :
        /\ send[s].pc = "sending"
        /\ send[s].request.id = "req3"
        /\ noPreRequestScripts(send[s])
        /\ send[s].runtimeVariables = [k \in {"a"} |-> Str(<<Lit("s")>>)]
        /\ send[s].variablesMap =
             [k \in {"a", "b"} |-> IF k = "a" THEN Str(<<Lit("s")>>)
                                   ELSE Str(<<Lit("x"), Lit("s")>>)]

\* C11: the map runPostRequestScripts returns, which becomes the overlay,
\* equals the raw contents of the environment map at the moment the last
\* script of the send completed: once a send is done and all its script
\* bodies have completed, every value a script of the send wrote with
\* pm.environment.set or pm.variables.set and that was not overwritten or
\* unset is in the overlay the next send starts from.
C11_OverlayIsFinalEnvironment ==
    \A s \in SendIds :
        (send[s].pc = "done" /\ live(send[s]) = {})
        => runtimeVariables = send[s].pmContext.environmentMap

\* C12: the overlay changes only in one step at the end of a send whose
\* every stage succeeded: while a send runs, after it failed, and after a
\* send in which a script raised an error, the overlay is the one the send
\* started from, even when its scripts had set environment variables.
C12_OverlayWrittenOnSuccessOnly ==
    \A s \in SendIds :
        LET sd == send[s]
        IN (sd.pc \in {"pre", "sending", "post", "failed"}
            \/ (sd.pc = "done" /\ sd.threw # {}))
           => runtimeVariables = sd.runtimeVariables

\* C13: every send that fails with a script error or a transport error ends
\* with a response of status 0 whose body is the error message and with an
\* error entry carrying that message in the console log of that send; for a
\* script error the entry also carries the script phase.
C13_FailureIsShown ==
    \A s \in SendIds :
        LET sd == send[s]
        IN sd.pc = "failed"
           => /\ response = [status |-> 0, body |-> sd.error.message]
              /\ \E i \in DOMAIN consoleLogs :
                    /\ consoleLogs[i].type = "error"
                    /\ consoleLogs[i].message = <<sd.error.message>>
                    /\ sd.error.isScriptError
                          => consoleLogs[i].scriptType = sd.error.scriptType

\* the enabled pairs of a list, in order, key and value resolved
enabledResolved(pairs, variablesMap) ==
    LET enabled == SelectSeq(pairs, LAMBDA p : p.enabled)
    IN [i \in 1..Len(enabled) |->
          [key |-> recursiveVariableResolver(Str(enabled[i].key), variablesMap).v,
           value |-> recursiveVariableResolver(Str(enabled[i].value), variablesMap).v]]

\* the step in which resolveRequest returns and the request is handed to fetch
resolves(s) == send[s].pc = "pre" /\ send'[s].pc = "sending"

\* Content-Type after the body step, given the headers before it (declared
\* ones are in the seeded script headers, with the script-added ones): an
\* existing value is kept, and the mode's type appears only when there was none
onlyIfAbsent(before, after, type, produced) ==
    LET ct == lower(ContentType)
    IN IF ct \in DOMAIN before
       THEN ct \in DOMAIN after /\ after[ct] = before[ct]
       ELSE /\ ct \in DOMAIN after => after[ct] = <<Lit(type)>>
            /\ produced => ct \in DOMAIN after

\* C14: in x-www-form-urlencoded mode, for any list of pairs, the resolved
\* body holds exactly the enabled pairs, in order, with key and value
\* resolved, and no disabled pair; Content-Type becomes
\* application/x-www-form-urlencoded only when the resolved headers (declared
\* or script-added) had none, an existing value is left unchanged; the same
\* only-if-absent rule holds for application/json in graphql mode.
C14_FormBodyAndContentType ==
    [][\A s \in SendIds :
          LET before == send[s].pmContext.request._headers
              body == send[s].request.body
              after == send'[s].resolved
          IN resolves(s)
             => /\ body.mode = "x-www-form-urlencoded"
                   => /\ after.resolvedBody.pairs
                            = enabledResolved(body.urlEncoded, send'[s].variablesMap)
                      /\ body.urlEncoded # <<>>
                            => after.resolvedBody.kind = "URLSearchParams"
                      /\ onlyIfAbsent(before, after.resolvedHeaders,
                                      "application/x-www-form-urlencoded",
                                      body.urlEncoded # <<>>)
                /\ body.mode = "graphql"
                   => onlyIfAbsent(before, after.resolvedHeaders,
                                   "application/json", body.graphql.query # <<>>)
      ]_vars

\* a request with two enabled pairs and a disabled one was resolved after a
\* script added a Content-Type: the body has the two pairs, the type is kept
C14_Witness ==
    \E s \in SendIds :
        /\ send[s].pc = "sending"
        /\ send[s].request.body.mode = "x-www-form-urlencoded"
        /\ Len(send[s].resolved.resolvedBody.pairs) = 2
        /\ send[s].added # <<>>
        /\ lower(ContentType) \in DOMAIN send[s].resolved.resolvedHeaders
        /\ send[s].resolved.resolvedHeaders[lower(ContentType)]
              # <<Lit("application/x-www-form-urlencoded")>>

\* resolveRequest returned in this send
resolveReturned(sd) == ~sd.resolved.thrown

\* C15 as stated: after resolveRequest on a form-data request, for every
\* formData list (empty, all disabled or with enabled pairs), the resolved
\* headers hold no Content-Type, even when one was declared on the request or
\* added by a pre-request script.
C15_FormDataClearsContentType ==
    \A s \in SendIds :
        (resolveReturned(send[s]) /\ send[s].request.body.mode = "form-data")
        => lower(ContentType) \notin DOMAIN send[s].resolved.resolvedHeaders

\* C15 amended: the same for every formData list that is not empty (all
\* disabled or with enabled pairs).
C15_NonEmptyFormDataClearsContentType ==
    \A s \in SendIds :
        (/\ resolveReturned(send[s])
         /\ send[s].request.body.mode = "form-data"
         /\ send[s].request.body.formData # <<>>)
        => lower(ContentType) \notin DOMAIN send[s].resolved.resolvedHeaders

\* a form-data request with only a disabled pair, a declared Content-Type and
\* one more added by a script was resolved, and no Content-Type is left
C15_Witness ==
    \E s \in SendIds :
        /\ send[s].pc = "sending"
        /\ send[s].request.body.mode = "form-data"
        /\ send[s].request.body.formData # <<>>
        /\ \A i \in DOMAIN send[s].request.body.formData :
              ~send[s].request.body.formData[i].enabled
        /\ \E i \in DOMAIN send[s].request.headers :
              send[s].request.headers[i].key = ContentType
        /\ \E i \in DOMAIN send[s].added : send[s].added[i].key = ContentType
        /\ lower(ContentType) \notin DOMAIN send[s].resolved.resolvedHeaders

GraphQLError == <<"GraphQL variables field contains invalid JSON">>

\* resolveRequest was called in this send: it returned, or the send failed
\* on an error that resolveRequest raises
resolveCalled(sd) ==
    \/ resolveReturned(sd)
    \/ sd.pc = "failed" /\ sd.error.message \in {GraphQLError, <<"Invalid name">>}

\* the variables field is, after template resolution, non-blank and not JSON
invalidVariables(sd) ==
    LET text == recursiveVariableResolver(Str(sd.request.body.graphql.variables),
                                          sd.variablesMap).v
    IN trim(text) # <<>> /\ JSON_parse(text).thrown

\* C16 as stated: for a graphql request whose variables field, after template
\* resolution, is non-blank and not valid JSON, resolveRequest throws an
\* error naming the GraphQL variables field, for every value of the query
\* field (the empty query included), and the send makes no transport call.
C16_InvalidVariablesThrow ==
    \A s \in SendIds :
        (/\ resolveCalled(send[s])
         /\ send[s].request.body.mode = "graphql"
         /\ invalidVariables(send[s]))
        => /\ send[s].pc = "failed"
           /\ send[s].error.message = GraphQLError
           /\ send[s].fetches = 0

\* C16 amended: the same for every query field that is not empty.
C16_InvalidVariablesThrowWithQuery ==
    \A s \in SendIds :
        (/\ resolveCalled(send[s])
         /\ send[s].request.body.mode = "graphql"
         /\ send[s].request.body.graphql.query # <<>>
         /\ invalidVariables(send[s]))
        => /\ send[s].pc = "failed"
           /\ send[s].error.message = GraphQLError
           /\ send[s].fetches = 0

\* a graphql request with a query whose variables are a template that does
\* not resolve to JSON failed on the named error before any transport call
C16_Witness ==
    \E s \in SendIds :
        /\ send[s].pc = "failed"
        /\ send[s].request.body.mode = "graphql"
        /\ send[s].request.body.graphql.query # <<>>
        /\ send[s].request.body.graphql.variables = <<Lit("{"), Var("a")>>
        /\ invalidVariables(send[s])
        /\ send[s].error.message = GraphQLError
        /\ send[s].fetches = 0

\* C17: no execution operation, with scripts calling set, unset or clear on
\* pm.variables, pm.environment, pm.collectionVariables or pm.globals, changes
\* Project.globalVariables, any node's variables, scripts or items, or the
\* RuntimeVariables map that was passed in: within a send the project and the
\* overlay it was started with stay as they were.
C17_ExecutionFrame ==
    [][/\ project' = project
       /\ \A s \in SendIds :
             used'.sends = used.sends
             => /\ send'[s].project = send[s].project
                /\ send'[s].runtimeVariables = send[s].runtimeVariables
      ]_vars

\* a script of a send that was started with an overlay has cleared the
\* environment or the globals of its context
C17_Witness ==
    \E s \in SendIds :
        /\ send[s].pc \in {"pre", "post"}
        /\ send[s].runtimeVariables # EmptyMap
        /\ \/ send[s].pmContext.environmentMap = EmptyMap
           \/ send[s].pmContext.globalsMap = EmptyMap
        /\ send[s].project = project
        /\ project.globalVariables # <<>>

\* the text after n replace passes
RECURSIVE passesOver(_, _, _)
passesOver(text, n, variables) ==
    IF n = 0 THEN text ELSE passesOver(replacePass(text, variables).text, n - 1, variables)

\* C18: recursiveVariableResolver, called with any text and any lookup that
\* itself returns, makes at most 10 substitution passes and then returns;
\* when the limit is reached the remaining placeholders are left verbatim in
\* the result and no error is raised.
C18_ResolverBounded ==
    \A s \in SendIds :
        LET sd == send[s]
            run == resolveLoop(sd.request.url.v, 0, sd.variablesMap)
            tenth == passesOver(sd.request.url.v, 10, sd.variablesMap)
        IN sd.pc = "resolved"
           => /\ run.passes <= 10
              /\ ~sd.resolved.thrown
              /\ sd.resolved.resolvedUrl.v = passesOver(sd.request.url.v, run.passes,
                                                      sd.variablesMap)
              /\ (run.passes = 10 /\ unresolvedRegex_test(tenth))
                    => sd.resolved.resolvedUrl.v = tenth

\* the lookup never settles (a -> x{{a}}): the result is the text of the
\* tenth pass, ten x and the placeholder still in it
C18_Witness ==
    \E s \in SendIds :
        /\ send[s].pc = "resolved"
        /\ send[s].request.url.v = <<Var("a")>>
        /\ MapGet(send[s].variablesMap, "a") = Str(<<Lit("x"), Var("a")>>)
        /\ Len(send[s].resolved.resolvedUrl.v) = 11
        /\ send[s].resolved.resolvedUrl.v[11] = Var("a")

\* the stage a send may enter from each stage
nextStages(pc) ==
    CASE pc = "idle" -> {"pre"}
      [] pc = "pre" -> {"sending", "failed"}
      [] pc = "sending" -> {"post", "failed"}
      [] pc = "post" -> {"done", "failed"}
      [] OTHER -> {}

\* C19: every send goes through the stages in the order pre-request scripts,
\* resolution, transport call, response received, post-request scripts: the
\* transport call happens only after every pre-request script has completed
\* and the request is resolved, post-request scripts start only after the
\* response is received, there is at most one transport call per send, and
\* each send ends exactly once, either done or failed.
C19_StageOrder ==
    [][\A s \in SendIds :
          LET sd == send[s]
              nx == send'[s]
              started == used'.sends # used.sends
              pre == chainIds(findPath(nx.request.id, nx.project), "pre-request")
              post == chainIds(findPath(nx.request.id, nx.project), "post-request")
          IN /\ nx.fetches <= 1
             /\ (~started /\ nx.fetches > sd.fetches)
                   => /\ sd.pc = "pre"
                      /\ ~nx.resolved.thrown
                      /\ \A i \in DOMAIN pre : pre[i] \in nx.ended \cup nx.threw
                      /\ live(nx) = {}
             /\ (~started /\ Len(nx.begun) > Len(sd.begun)
                 /\ \E i \in DOMAIN post : post[i] = nx.begun[Len(nx.begun)])
                   => /\ sd.pc = "post"
                      /\ nx.fetches = 1
                      /\ nx.pmContext.response # NoResponse
             /\ (~started /\ nx.pc # sd.pc) => nx.pc \in nextStages(sd.pc)
             /\ started => nx.pc = "pre" /\ sd.pc \in {"idle", "done", "failed"}
      ]_vars

\* C20: when two sends are in flight at the same time, both having read the
\* same overlay at their start, the overlay after both finished is the
\* environment snapshot of the send that finished last: keys set only by the
\* send that finished first are absent, and the overlay is never a mix of the
\* two snapshots.
C20_LastWritebackWins ==
    [][\A s \in RaceIds : \A t \in RaceIds \ {s} :
          (/\ send[s].pc = "post" /\ send'[s].pc = "done"
           /\ send[t].pc = "done"
           /\ send[s].runtimeVariables = send[t].runtimeVariables)
          => LET snapshot == send'[s].pmContext.environmentMap
             IN /\ runtimeVariables' = snapshot
                /\ \A k \in DOMAIN runtimeVariables \ DOMAIN snapshot :
                      k \notin DOMAIN runtimeVariables'
      ]_vars

\* both sends started from the empty overlay; the first to finish had set a
\* and wrote it back, the last to finish had set b: the overlay holds b only
C20_Witness ==
    \E s \in RaceIds : \E t \in RaceIds \ {s} :
        /\ send[s].pc = "done" /\ send[t].pc = "done"
        /\ send[s].runtimeVariables = EmptyMap /\ send[t].runtimeVariables = EmptyMap
        /\ DOMAIN send[t].pmContext.environmentMap = {"a"}
        /\ DOMAIN send[s].pmContext.environmentMap = {"b"}
        /\ runtimeVariables = send[s].pmContext.environmentMap

\* C21: a response with any HTTP status code, 4xx and 5xx included, is not a
\* failure: the post-request scripts run with pm.response.code equal to that
\* status, the overlay is written back, and no synthetic zero-status response
\* replaces the received one.
C21_ErrorStatusIsNoFailure ==
    [][\A s \in SendIds :
          LET sd == send[s]
              nx == send'[s]
              post == chainIds(findPath(nx.request.id, nx.project), "post-request")
          IN /\ (sd.pc = "sending" /\ response' # response)
                   => \/ /\ nx.pc = "post"
                         /\ nx.pmContext.response.code = response'.status
                      \/ /\ nx.pc = "failed"
                         /\ nx.error = Error(<<"Failed to fetch">>)
             /\ nx.pc = "post"
                   => /\ response'.status = nx.pmContext.response.code
                      /\ response'.status # 0
             /\ (sd.pc = "post" /\ nx.pc = "failed") => nx.error.isScriptError
             /\ (sd.pc = "post" /\ nx.pc = "done")
                   => /\ response' = response
                      /\ runtimeVariables' = sd.pmContext.environmentMap
                      /\ \A i \in DOMAIN post :
                            \E j \in DOMAIN nx.begun : nx.begun[j] = post[i]
      ]_vars

\* a send answered with status 500 is done: its post-request scripts ran, one
\* of them set a, the overlay holds it and the response shown is the 500
C21_Witness ==
    \E s \in SendIds :
        /\ send[s].pc = "done"
        /\ response.status = 500
        /\ send[s].pmContext.response.code = 500
        /\ \E j \in DOMAIN send[s].begun : send[s].begun[j] = "r1post"
        /\ "a" \in DOMAIN runtimeVariables
        /\ runtimeVariables = send[s].pmContext.environmentMap

\* the placeholders of a text whose key the lookup does not define
unknownPlaceholders(text, variables) ==
    SelectSeq(text, LAMBDA token : token.t = "var" /\ token.v \notin DOMAIN variables)

\* u is a subsequence of v
RECURSIVE isSubsequence(_, _)
isSubsequence(u, v) ==
    IF u = <<>> THEN TRUE
    ELSE IF v = <<>> THEN FALSE
    ELSE IF Head(u) = Head(v) THEN isSubsequence(Tail(u), Tail(v))
    ELSE isSubsequence(u, Tail(v))

\* C22: recursiveVariableResolver leaves every placeholder whose key the
\* lookup does not define verbatim in its result, ends as soon as a pass
\* replaces nothing, returns a text with no defined placeholder unchanged,
\* and returns a non-string or empty input unchanged.
C22_UnknownLeftVerbatim ==
    \A s \in SendIds :
        LET sd == send[s]
            input == sd.request.url
            variables == sd.variablesMap
            result == sd.resolved.resolvedUrl
            run == resolveLoop(input.v, 0, variables)
            replacedIn(n) ==
                replacePass(passesOver(input.v, n - 1, variables), variables).replaced
        IN sd.pc = "resolved"
           => /\ (input.type # "string" \/ input.v = <<>>) => result = input
              /\ input.type = "string"
                 => /\ result.type = "string"
                    /\ isSubsequence(unknownPlaceholders(input.v, variables),
                                     unknownPlaceholders(result.v, variables))
                    /\ \A n \in 1..(run.passes - 1) : replacedIn(n)
                    /\ (\A i \in DOMAIN input.v :
                           input.v[i].t = "var" => input.v[i].v \notin DOMAIN variables)
                          => result = input

\* the text {{u}}{{a}} was resolved under a lookup that defines a as a literal
\* and does not define u: the placeholder of u still leads the result
C22_Witness ==
    \E s \in SendIds :
        /\ send[s].pc = "resolved"
        /\ send[s].request.url = Str(<<Var("u"), Var("a")>>)
        /\ MapGet(send[s].variablesMap, "a") = Str(<<Lit("v")>>)
        /\ send[s].resolved.resolvedUrl = Str(<<Var("u"), Lit("v")>>)

\* C23: pm.sendRequest(req, callback) resolves the URL, the headers and the
\* body of req against the unified variables as they are at the call, makes
\* exactly one transport call, starts no pre-request or post-request script,
\* and never invokes the callback inside the pm.sendRequest call; the first
\* arguments the callback gets are (null, response) when the transport
\* answered and (error, undefined) when resolution or the transport failed
C23_SendRequestIsAsynchronous ==
    [][\A s \in SendIds :
          LET sd == send[s]
              nx == send'[s]
              unified == variablesAccessor_toObject(sd.pmContext)
          IN /\ Len(nx.sent) > Len(sd.sent)
                   => LET e == nx.sent[Len(nx.sent)]
                          o == e.requestOptions
                      IN /\ e.invoked = <<>>
                         /\ e.currentVariables = unified.obj
                         /\ e.fetches = IF e.resolved.thrown THEN 0 ELSE 1
                         /\ ~e.resolved.thrown
                               => /\ e.resolved.resolvedUrl =
                                        recursiveVariableResolver(Str(o.url), unified.obj).v
                                  /\ \A h \in DOMAIN o.headers :
                                        o.headers[h].enabled
                                          => /\ lower(o.headers[h].key)
                                                  \in DOMAIN e.resolved.resolvedHeaders
                                             /\ e.resolved.resolvedHeaders[lower(o.headers[h].key)] =
                                                   recursiveVariableResolver(
                                                       Str(o.headers[h].value), unified.obj).v
                                  /\ o.body.mode = "raw"
                                        => e.resolved.resolvedBody =
                                              stringBody(recursiveVariableResolver(
                                                             Str(o.body.raw), unified.obj).v)
             /\ nx.sent # sd.sent
                   => /\ nx.begun = sd.begun
                      /\ nx.idx = sd.idx
                      /\ nx.fetches = sd.fetches
             /\ \A i \in DOMAIN nx.sent :
                   /\ nx.sent[i].fetches <= 1
                   /\ nx.sent[i].pc = "answered"
                         => /\ nx.sent[i].invoked[1].err = "null"
                            /\ nx.sent[i].invoked[1].code \in StatusCodes
                   /\ nx.sent[i].pc \in {"rejected", "thrown"}
                         => nx.sent[i].invoked[1] = [err |-> "error", code |-> 0]
      ]_vars

\* C28: every call of pm.sendRequest invokes its callback exactly once,
\* whether the transport answers or fails, or the callback itself throws:
\* never before the outcome is known, once from then on
C28_CallbackExactlyOnce ==
    \A s \in SendIds :
       \A i \in DOMAIN send[s].sent :
          Len(send[s].sent[i].invoked) = IF send[s].sent[i].pc = "fetching" THEN 0 ELSE 1

\* C29: the callback of a pm.sendRequest made by a pre-request script has
\* run when runPreRequestScripts takes the variablesMap snapshot, so what it
\* set is in the snapshot the request is resolved with; likewise the callback
\* of one made by a post-request script has run when runPostRequestScripts
\* takes the environment snapshot that becomes the overlay
C29_CallbackBeforeSnapshot ==
    [][\A s \in SendIds :
          LET sd == send[s]
              nx == send'[s]
              set == [i \in DOMAIN sd.sent |-> sd.sent[i].callback.call]
          IN /\ (sd.pc = "pre" /\ nx.pc = "sending")
                   => \A i \in DOMAIN sd.sent :
                         /\ sd.sent[i].invoked # <<>>
                         /\ set[i] # NoCall
                               => /\ set[i].key \in DOMAIN nx.variablesMap
                                  /\ nx.variablesMap[set[i].key] = set[i].value
             /\ (sd.pc = "post" /\ nx.pc = "done")
                   => \A i \in DOMAIN sd.sent :
                         /\ sd.sent[i].invoked # <<>>
                         /\ set[i] # NoCall
                               => /\ set[i].key \in DOMAIN runtimeVariables'
                                  /\ runtimeVariables'[set[i].key] = set[i].value
      ]_vars

\* the ids along a path, root first
pathIds(path) == [i \in DOMAIN path |-> path[i].id]

\* C24: after handleDelete has removed node X, findPath returns null for X
\* and for every node that had X on its chain; every other node is still
\* found with the same chain of ancestors, and is itself unchanged unless X
\* was below it; an id that is not in the tree is not found
C24_DeleteRemovesSubtree ==
    [][project' # project
         => /\ findPath("gone", project') = null
            /\ \E X \in TreeIds :
                  /\ findPath(X, project) # null
                  /\ \A id \in TreeIds :
                        LET before == findPath(id, project)
                            after == findPath(id, project')
                            under == \E i \in DOMAIN before : before[i].id = X
                            above == \E i \in DOMAIN findPath(X, project) :
                                        findPath(X, project)[i].id = id
                        IN /\ under => after = null
                           /\ before = null => after = null
                           /\ (before # null /\ ~under)
                                 => /\ pathIds(after) = pathIds(before)
                                    /\ ~above => after[Len(after)] = before[Len(before)]
      ]_vars

C24_Witness ==
    /\ findPath("f1", project) = null
    /\ findPath("f2", project) = null
    /\ findPath("req2", project) = null
    /\ pathIds(findPath("req1", project)) = <<"coll1", "req1">>
    /\ pathIds(findPath("req3", project)) = <<"coll2", "f3", "req3">>

\* C25: a pre-request script that throws (on line 3 of its body) makes the
\* send fail with a ScriptExecutionError tagged pre-request whose line is 3,
\* or which has no line when none can be recovered; a ScriptExecutionError
\* has a positive line or none, and always its message and its phase tag
C25_ThrowReportsLine ==
    \A s \in SendIds :
       LET sd == send[s]
           pre == chainIds(findPath(sd.request.id, sd.project), "pre-request")
       IN /\ sd.error.isScriptError
                => /\ sd.error.line = NoLine \/ sd.error.line > 0
                   /\ sd.error.scriptType \in {"pre-request", "post-request"}
                   /\ sd.error.message # <<>>
          /\ \A id \in sd.threw :
                (\E i \in DOMAIN pre : pre[i] = id)
                   => /\ sd.pc = "failed"
                      /\ sd.error.isScriptError
                      /\ sd.error.scriptType = "pre-request"
                      /\ sd.error.line \in {3, NoLine}

\* the keys of a scope map of a send's context whose value is not the one
\* buildPmContext gave them: a script has written them
written(sd, scope) ==
    LET built == buildPmContext(sd.project, sd.request.id, sd.runtimeVariables)[scope]
    IN {k \in DOMAIN sd.pmContext[scope] :
           k \notin DOMAIN built \/ built[k] # sd.pmContext[scope][k]}

\* what the steps between the scripts of a run, and the start of the next
\* run, do to the globals and collection maps: nothing but the calls of a
\* running script changes them within a send, whichever phase it is in, and
\* a send (or a preview) that starts has them as the Project alone gives them
scopesLastForTheSend ==
    \A s \in SendIds :
       LET sd == send[s]
           nx == send'[s]
           started == /\ sd.pc \in {"idle", "done", "failed"}
                      /\ nx # sd
                      /\ nx.running = ""
       IN /\ (sd.running = "" /\ ~started)
                => /\ nx.pmContext.globalsMap = sd.pmContext.globalsMap
                   /\ nx.pmContext.collectionMap = sd.pmContext.collectionMap
          /\ (started /\ nx.pc = "pre")
                => /\ nx.pmContext.globalsMap = setEnabled(EmptyMap, project'.globalVariables)
                   /\ nx.pmContext.collectionMap =
                         setEnabled(EmptyMap, findPath(nx.request.id, project')[1].variables)
          /\ project' = project
          /\ runtimeVariables' # runtimeVariables
                => runtimeVariables' = sd.pmContext.environmentMap

\* C27 as claimed: a value written with pm.globals.set or
\* pm.collectionVariables.set is what every later script of the send gets for
\* the key, in both phases, from the scoped accessor and from the unified
\* accessor; it is gone when the send ends, the next send building both maps
\* from the Project alone
C27_ScopeWritesVisibleInSend ==
    [][/\ scopesLastForTheSend
       /\ \A s \in SendIds :
             \A scope \in {"globalsMap", "collectionMap"} :
                \A k \in written(send'[s], scope) :
                   /\ scopeAccessor_get(send'[s].pmContext, scope, k) =
                         send'[s].pmContext[scope][k]
                   /\ variablesGet(send'[s].pmContext, k) = send'[s].pmContext[scope][k]
      ]_vars

\* C27 amended: the value is what the scoped accessor returns, and the
\* unified accessor has the key; the unified accessor returns the value when
\* no scope of higher precedence defines the key and the value holds no
\* placeholder
C27_ScopeWritesVisibleUnlessShadowed ==
    [][/\ scopesLastForTheSend
       /\ \A s \in SendIds :
             \A scope \in {"globalsMap", "collectionMap"} :
                \A k \in written(send'[s], scope) :
                   LET ctx == send'[s].pmContext
                       value == ctx[scope][k]
                       shadowed == \/ k \in DOMAIN ctx.environmentMap
                                   \/ scope = "globalsMap" /\ k \in DOMAIN ctx.collectionMap
                       literal == value.type # "string"
                                  \/ \A i \in DOMAIN value.v : value.v[i].t = "lit"
                   IN /\ scopeAccessor_get(ctx, scope, k) = value
                      /\ variablesAccessor_has(ctx, k)
                      /\ (~shadowed /\ literal) => variablesGet(ctx, k) = value
      ]_vars

\* C27 witness: a pre-request script has set a in the globals of a request
\* whose folders and collection do not declare a, and the send is in its
\* post-request stage with a script running: both accessors give the value
C27_Witness ==
    \E s \in SendIds :
       /\ send[s].pc = "post"
       /\ send[s].running # ""
       /\ "a" \in written(send[s], "globalsMap")
       /\ scopeAccessor_get(send[s].pmContext, "globalsMap", "a") = Str(<<Lit("s")>>)
       /\ variablesGet(send[s].pmContext, "a") = Str(<<Lit("s")>>)

\* C26: the variables of a folder are in effect for the items below it only,
\* also from one send to the next: as long as no script has set anything, the
\* environment map of a send holds a key only if a folder of the item's own
\* chain declares it, with the value of the deepest such folder
C26_FolderVariablesStayBelow ==
    \A s \in SendIds :
        LET sd == send[s]
            path == findPath(sd.request.id, sd.project)
            env == sd.pmContext.environmentMap
        IN (justBuilt(sd) /\ sd.kind = "send" /\ used.steps = 0)
           => \A k \in Keys :
                 LET places == declaringFolders(path, k)
                 IN IF places = {} THEN k \notin DOMAIN env
                    ELSE /\ k \in DOMAIN env
                         /\ \E j \in DOMAIN path[Deepest(places)].variables :
                               LET v == path[Deepest(places)].variables[j]
                               IN v.key = k /\ v.enabled /\ env[k] = Str(v.value)

\* C30: resolveRequestPreview, getResolvedVariablesAfterScripts and
\* getScopedVariables never change the overlay, the console log or the shown
\* response, whatever the pre-request scripts do; they start no post-request
\* script and do not send the request; a send that starts takes the overlay
\* as it is
C30_PreviewsChangeNothing ==
    [][\A s \in SendIds :
          LET nx == send'[s]
              post == chainIds(findPath(nx.request.id, nx.project), "post-request")
          IN /\ nx.kind # "send"
                   => /\ runtimeVariables' = runtimeVariables
                      /\ consoleLogs' = consoleLogs
                      /\ response' = response
                      /\ project' = project
                      /\ nx.pc \in {"pre", "done", "failed"}
                      /\ nx.fetches = 0
                      /\ \A i \in DOMAIN nx.begun :
                            \A j \in DOMAIN post : nx.begun[i] # post[j]
             /\ (used'.sends # used.sends /\ nx.pc = "pre")
                   => nx.runtimeVariables = runtimeVariables
      ]_vars

\* C30 witness: a preview of the request two folders deep has ended after a
\* pre-request script set a, which the overlay does not have; nothing is
\* logged or shown
C30_Witness ==
    \E s \in SendIds :
       /\ send[s].kind = "resolveRequestPreview"
       /\ send[s].pc = "done"
       /\ send[s].request.id = "req2"
       /\ send[s].variablesMap["a"] = Str(<<Lit("s")>>)
       /\ runtimeVariables = EmptyMap
       /\ consoleLogs = <<>>
       /\ response = NullResponse
====
